---- MODULE Spec2Model ----
(***************************************************************************)
(* Model of the data synchronisation layer of the Golden Reputation        *)
(* backend: the batch upsert of the BigQuery entity models (upsertMany),   *)
(* the BigQuerySync service that feeds it (executeQuery, saveToDatabase,   *)
(* getUnits ...), and the existence-check-then-branch tenant sync.         *)
(*                                                                         *)
(* The relational store is modelled by what PostgreSQL does with the       *)
(* statements the code sends: INSERT ... ON CONFLICT (target) DO UPDATE,   *)
(* transactions whose CURRENT_TIMESTAMP is the transaction's start time,   *)
(* uncommitted writes private to the transaction, and waiting on a key     *)
(* another open transaction has written.                                   *)
(***************************************************************************)
EXTENDS Integers, Sequences, FiniteSets, TLC

VARIABLES
    entity,      \* the entity model under consideration (fixed in a behaviour)
    shape,       \* the columns the entity's source view returns (fixed in a behaviour)
    active,      \* the callers that may invoke upsertMany
    natUnique,   \* whether the table has a unique index on the natural key
    thisPool,    \* what `this.pool` evaluates to on a model instance
    table,       \* committed rows of the entity's table
    checkedOut,  \* connections of the pool currently checked out
    clock,       \* the store's clock
    call,        \* per caller: the upsertMany invocation in progress
    ncalls,      \* upsertMany invocations started so far
    prev,        \* the previous completed saveToDatabase
    job,         \* the scheduled refresh job (getUnits and its siblings)
    version,     \* which syncTenantData the cron job is bound to
    tenants,     \* rows of the tenants table (every statement autocommits)
    sync,        \* per run of the tenant sync job: its position and locals
    proc,        \* the process: running or exited, and its shutdown handler
    runs,        \* the runs of the scheduled jobs fired so far
    metrics,     \* the fields of the Metrics singleton
    audit,       \* what has been recorded with Metrics so far (history)
    health,      \* the answer of the getHealthStatus call being served
    norm,        \* the row normalization under consideration: input and output
    retry,       \* the withRetry call under consideration
    web,         \* the HTTP request being served (webhook, OAuth callback)
    facility,    \* the facilities table and the facility loop of the sync
    cron,        \* the minute clock of the scheduler and the runs it started
    composite    \* the tables of the entities with a composite natural key

tenantVars == <<version, tenants, sync>>

batchVars == <<entity, shape, active, natUnique, thisPool, table, checkedOut, clock, call, ncalls, prev, job>>

schedVars == <<proc, runs>>

metricVars == <<metrics, audit, health>>

edgeVars == <<web, facility, cron, composite>>

vars == <<entity, shape, active, natUnique, thisPool, table, checkedOut, clock, call, ncalls, prev, job,
          version, tenants, sync, proc, runs, metrics, audit, health, norm, retry,
          web, facility, cron, composite>>

(***************************************************************************)
(* Bounds                                                                  *)
(***************************************************************************)
NCallers == 2      \* concurrent invocations (overlapping job runs)
MaxCalls == 2      \* invocations per behaviour
MaxBatch == 2      \* records per batch
MaxKey == 2        \* natural key values
MaxVal == 2        \* payload values
MaxRuns == 2       \* fires of the scheduled job per behaviour
NRuns == 2         \* runs of the tenant sync job that may overlap
MaxFires == 3      \* fires of scheduled jobs per behaviour
MaxJobs == 3       \* warehouse refresh jobs modelled, of the 12 registered
MaxTracks == 3     \* calls recorded with Metrics per behaviour
MaxClock == 8      \* hours the clock may reach
MaxOps == 2        \* distinct outcomes an operation under withRetry may return
MaxRequests == 2   \* HTTP requests served per behaviour
MaxSigLen == 3     \* characters of a signature header (a digest has 2)
MaxBody == 2       \* distinct webhook bodies
MaxUpserts == 2    \* records upserted into a composite-key table
MaxSynced == 3     \* facility rows processed by the facility loop

Callers == 1..NCallers
KeyVals == 1..MaxKey
Vals == 1..MaxVal
Runs == 1..NRuns

\* src/config/db.js: max: 20
PoolMax == 20

Null == 0 - 99        \* SQL NULL / JS undefined sent as a parameter
NoErr == "none"

Undefined == "undefined"
ThePool == "pool"

(***************************************************************************)
(* The entity models.  Each upsertMany is the same code with its own       *)
(* filter on the update clause and its own ON CONFLICT target.             *)
(***************************************************************************)
Entities == {"units", "leases", "payments", "contacts"}

\* The column that carries the natural key in the records of each entity.
NaturalKey(e) ==
    CASE e = "units" -> "unit_id"
      [] e = "leases" -> "lease_id"
      [] e = "payments" -> "payment_id"
      [] e = "contacts" -> "contact_id"

\* .filter((key) => key !== 'unit_id')
UnitFiltered == {"unit_id"}
\* .filter((key) => key !== 'lease_id')
LeaseFiltered == {"lease_id"}
\* .filter(key => key !== 'payment_id')
PaymentFiltered == {"payment_id"}
\* .filter((key) => key !== 'contact_id' && key !== 'updated_at')
ContactFiltered == {"contact_id", "updated_at"}

\* ON CONFLICT (unit_id)
UnitConflict == "unit_id"
\* ON CONFLICT (lease_id)
LeaseConflict == "lease_id"
\* ON CONFLICT (id)
PaymentConflict == "id"
\* ON CONFLICT (contact_id)
ContactConflict == "contact_id"

Filtered(e) ==
    CASE e = "units" -> UnitFiltered
      [] e = "leases" -> LeaseFiltered
      [] e = "payments" -> PaymentFiltered
      [] e = "contacts" -> ContactFiltered

ConflictTarget(e) ==
    CASE e = "units" -> UnitConflict
      [] e = "leases" -> LeaseConflict
      [] e = "payments" -> PaymentConflict
      [] e = "contacts" -> ContactConflict

(***************************************************************************)
(* Records.  A record is a function from the columns it carries to their   *)
(* values; all records of one batch come from one query result and carry   *)
(* the same columns.                                                       *)
(***************************************************************************)
ColOrder(e) == <<NaturalKey(e), "val", "created_at", "updated_at">>

\* The columns a record of the entity may carry.  getUnits, getLeases and
\* getPayments pass on the columns of the source view (SELECT *); getContacts
\* adds created_at and updated_at to every record.  A view may have the key
\* column alone, other columns, or timestamps of its own.
Shapes(e) ==
    IF e = "contacts"
    THEN { {NaturalKey(e), "val", "created_at", "updated_at"} }
    ELSE { {NaturalKey(e)},
           {NaturalKey(e), "val"},
           {NaturalKey(e), "val", "created_at"},
           {NaturalKey(e), "val", "updated_at"} }

\* A timestamp carried by a source record: upstream's own, before any local
\* write, and changing when the upstream row changes.
SrcTime(v) == 0 - v

MkRecord(e, sh, k, v) ==
    [c \in sh |->
        IF c = NaturalKey(e) THEN k
        ELSE IF c = "val" THEN v
        ELSE SrcTime(v)]

Payloads == KeyVals \X Vals

PayloadSeqs == UNION { [1..n -> Payloads] : n \in 0..MaxBatch }

Batches(e, sh) ==
    { [i \in DOMAIN ps |-> MkRecord(e, sh, ps[i][1], ps[i][2])] : ps \in PayloadSeqs }

RecKey(e, r) == r[NaturalKey(e)]

\* Object.keys(record)
ObjectKeys(e, r) == SelectSeq(ColOrder(e), LAMBDA c : c \in DOMAIN r)

\* Object.keys(record).filter(...).map(key => `${key} = EXCLUDED.${key}`)
UpdateClause(e, r) == SelectSeq(ObjectKeys(e, r), LAMBDA c : c \notin Filtered(e))

\* DO UPDATE SET ${updateClause}, updated_at = CURRENT_TIMESTAMP
SetList(e, r) == UpdateClause(e, r) \o <<"updated_at">>

Count(s, x) == Cardinality({i \in DOMAIN s : s[i] = x})


Max(S) == CHOOSE x \in S : \A y \in S : y <= x

(***************************************************************************)
(* The store: what PostgreSQL does with the generated statement.           *)
(***************************************************************************)
\* Rows a transaction sees: the committed rows, overlaid with its own writes.
View(c) == {row \in table : \A m \in call[c].mod : m.id # row.id} \cup call[c].mod

AllIds == {row.id : row \in table} \cup UNION {{m.id : m \in call[d].mod} : d \in Callers}

\* The next value of the table's serial id.
FreshId == 1 + Max(AllIds \cup {0})

\* The row proposed for insertion (EXCLUDED): the record's columns, and the
\* column defaults (serial id, CURRENT_TIMESTAMP) for the columns it lacks.
Proposed(e, r, ts) ==
    [id |-> FreshId,
     key |-> RecKey(e, r),
     val |-> IF "val" \in DOMAIN r THEN r["val"] ELSE Null,
     created_at |-> IF "created_at" \in DOMAIN r THEN r["created_at"] ELSE ts,
     updated_at |-> IF "updated_at" \in DOMAIN r THEN r["updated_at"] ELSE ts]

\* The rows that conflict with the proposed row on the ON CONFLICT target.
Conflicting(e, rows, prop) ==
    IF ConflictTarget(e) = NaturalKey(e)
    THEN {row \in rows : row.key = prop.key}
    ELSE {row \in rows : row.id = prop.id}

\* DO UPDATE SET <col> = EXCLUDED.<col> ..., updated_at = CURRENT_TIMESTAMP
DoUpdate(e, r, old, prop, ts) ==
    LET cols == {UpdateClause(e, r)[i] : i \in DOMAIN UpdateClause(e, r)} IN
    [id |-> old.id,
     key |-> IF NaturalKey(e) \in cols THEN prop.key ELSE old.key,
     val |-> IF "val" \in cols THEN prop.val ELSE old.val,
     created_at |-> IF "created_at" \in cols THEN prop.created_at ELSE old.created_at,
     updated_at |-> ts]

\* The error PostgreSQL raises for the statement, or NoErr.
StatementError(e, r, rows, prop) ==
    IF Len(UpdateClause(e, r)) = 0
        THEN "syntax_error"                      \* DO UPDATE SET , updated_at = ...
    ELSE IF \E col \in DOMAIN r \cup {"updated_at"} : Count(SetList(e, r), col) > 1
        THEN "multiple_assignments"              \* same column assigned twice
    ELSE IF /\ Conflicting(e, rows, prop) = {}
            /\ natUnique
            /\ \E row \in rows : row.key = prop.key
        THEN "unique_violation"                  \* insert of a second row with the key
    ELSE NoErr

\* await client.query(query, values): the transaction's writes afterwards.
ExecUpsert(e, r, c) ==
    LET prop == Proposed(e, r, call[c].ts)
        hit == Conflicting(e, View(c), prop)
    IN  IF hit = {}
        THEN call[c].mod \cup {prop}
        ELSE {m \in call[c].mod : \A h \in hit : h.id # m.id}
               \cup {DoUpdate(e, r, h, prop, call[c].ts) : h \in hit}

\* A statement on a key waits while another open transaction holds an
\* uncommitted write under the same unique index entry.
Blocked(c, k) ==
    /\ natUnique
    /\ \E d \in Callers \ {c} : \E m \in call[d].mod : m.key = k


(***************************************************************************)
(* upsertMany, one step per await.                                         *)
(***************************************************************************)
IdleCall ==
    [pc |-> "idle", batch |-> <<>>, i |-> 0, ts |-> 0, mod |-> {},
     err |-> NoErr, committed |-> FALSE, held |-> FALSE, acquired |-> FALSE,
     released |-> 0, began |-> FALSE, solo |-> TRUE, via |-> "direct", pre |-> {}]

\* BaseModel's constructor sets tableName and nothing else: the instance has
\* no `pool` property (the pool is a module-level constant of BaseModel.js).
BaseModelConstructor == Undefined

\* A caller invokes Model.upsertMany(batch).
Invoke(c, b, how) ==
    /\ c \in active
    /\ call[c].pc = "idle"
    /\ ncalls < MaxCalls
    /\ ncalls' = ncalls + 1
    /\ call' = [d \in Callers |->
                 IF d = c
                 THEN [IdleCall EXCEPT !.pc = "connect", !.batch = b, !.via = how,
                                       !.pre = table,
                                       !.solo = \A x \in Callers : call[x].pc = "idle"]
                 ELSE IF call[d].pc = "idle" THEN call[d]
                 ELSE [call[d] EXCEPT !.solo = FALSE]]

\* const client = await this.pool.connect();   (outside the try)
Connect(c) ==
    /\ call[c].pc = "connect"
    /\ IF thisPool = Undefined
       THEN \* TypeError: Cannot read properties of undefined (reading 'connect')
            /\ call' = [call EXCEPT ![c].pc = "done", ![c].err = "TypeError"]
            /\ UNCHANGED checkedOut
       ELSE IF checkedOut < PoolMax
       THEN /\ call' = [call EXCEPT ![c].pc = "begin", ![c].held = TRUE,
                                    ![c].acquired = TRUE]
            /\ checkedOut' = checkedOut + 1
       ELSE \* connectionTimeoutMillis: no connection became free
            /\ call' = [call EXCEPT ![c].pc = "done", ![c].err = "connect_timeout"]
            /\ UNCHANGED checkedOut
    /\ UNCHANGED <<edgeVars, schedVars, metricVars, norm, retry, tenantVars, entity, shape, active, natUnique, thisPool, table, clock, ncalls, prev, job>>

\* await client.query('BEGIN')
Begin(c) ==
    /\ call[c].pc = "begin"
    /\ call' = [call EXCEPT ![c].pc = "loop", ![c].i = 1, ![c].ts = clock,
                            ![c].began = TRUE]
    /\ clock' = clock + 1
    /\ UNCHANGED <<edgeVars, schedVars, metricVars, norm, retry, tenantVars, entity, shape, active, natUnique, thisPool, table, checkedOut, ncalls, prev, job>>

BeginFails(c) ==
    /\ call[c].pc = "begin"
    /\ call' = [call EXCEPT ![c].pc = "rollback", ![c].err = "begin_failed"]
    /\ UNCHANGED <<edgeVars, schedVars, metricVars, norm, retry, tenantVars, entity, shape, active, natUnique, thisPool, table, checkedOut, clock, ncalls, prev, job>>

\* Mutant: the statement goes through the pool (autocommit), not the client.
StatementAutocommit(c) ==
    /\ call[c].pc = "loop"
    /\ call[c].i <= Len(call[c].batch)
    /\ LET r == call[c].batch[call[c].i]
           e == StatementError(entity, r, View(c), Proposed(entity, r, call[c].ts))
       IN  /\ ~Blocked(c, RecKey(entity, r))
           /\ IF e = NoErr
              THEN /\ table' = {row \in table : \A m \in ExecUpsert(entity, r, c) : m.id # row.id}
                                   \cup ExecUpsert(entity, r, c)
                   /\ call' = [call EXCEPT ![c].i = @ + 1]
              ELSE /\ call' = [call EXCEPT ![c].pc = "rollback", ![c].err = e]
                   /\ UNCHANGED table
    /\ UNCHANGED <<edgeVars, schedVars, metricVars, norm, retry, tenantVars, entity, shape, active, natUnique, thisPool, checkedOut, clock, ncalls, prev, job>>

\* for (const unit of units) { ... await client.query(query, values); }
Statement(c) ==
    /\ call[c].pc = "loop"
    /\ call[c].i <= Len(call[c].batch)
    /\ LET r == call[c].batch[call[c].i]
           e == StatementError(entity, r, View(c), Proposed(entity, r, call[c].ts))
       IN  /\ ~Blocked(c, RecKey(entity, r))
           /\ IF e = NoErr
              THEN call' = [call EXCEPT ![c].mod = ExecUpsert(entity, r, c),
                                        ![c].i = @ + 1]
              ELSE call' = [call EXCEPT ![c].pc = "rollback", ![c].err = e]
    /\ UNCHANGED <<edgeVars, schedVars, metricVars, norm, retry, tenantVars, entity, shape, active, natUnique, thisPool, table, checkedOut, clock, ncalls, prev, job>>

\* The store rejects the statement for a reason the model does not compute:
\* a constraint of the schema, a lost connection, a detected deadlock.
StatementFails(c) ==
    /\ call[c].pc = "loop"
    /\ call[c].i <= Len(call[c].batch)
    /\ call' = [call EXCEPT ![c].pc = "rollback", ![c].err = "statement_failed"]
    /\ UNCHANGED <<edgeVars, schedVars, metricVars, norm, retry, tenantVars, entity, shape, active, natUnique, thisPool, table, checkedOut, clock, ncalls, prev, job>>

\* await client.query('COMMIT')
Commit(c) ==
    /\ call[c].pc = "loop"
    /\ call[c].i > Len(call[c].batch)
    /\ table' = View(c)
    /\ call' = [call EXCEPT ![c].pc = "release", ![c].mod = {}, ![c].committed = TRUE]
    /\ UNCHANGED <<edgeVars, schedVars, metricVars, norm, retry, tenantVars, entity, shape, active, natUnique, thisPool, checkedOut, clock, ncalls, prev, job>>

CommitFails(c) ==
    /\ call[c].pc = "loop"
    /\ call[c].i > Len(call[c].batch)
    /\ call' = [call EXCEPT ![c].pc = "rollback", ![c].err = "commit_failed"]
    /\ UNCHANGED <<edgeVars, schedVars, metricVars, norm, retry, tenantVars, entity, shape, active, natUnique, thisPool, table, checkedOut, clock, ncalls, prev, job>>

\* catch (error) { await client.query('ROLLBACK'); ...; throw error; }
Rollback(c) ==
    /\ call[c].pc = "rollback"
    /\ call' = [call EXCEPT ![c].pc = "release", ![c].mod = {}]
    /\ UNCHANGED <<edgeVars, schedVars, metricVars, norm, retry, tenantVars, entity, shape, active, natUnique, thisPool, table, checkedOut, clock, ncalls, prev, job>>

\* Mutant: release() at the end of the catch block instead of in finally.
RollbackFailsLeaks(c) ==
    /\ call[c].pc = "rollback"
    /\ call' = [call EXCEPT ![c].pc = "done", ![c].mod = {}, ![c].err = "rollback_failed"]
    /\ UNCHANGED <<edgeVars, schedVars, metricVars, norm, retry, tenantVars, entity, shape, active, natUnique, thisPool, table, checkedOut, clock, ncalls, prev, job>>

\* ROLLBACK itself rejects (the connection is gone): its error leaves the
\* catch block in place of the caught one; the store drops the transaction.
RollbackFails(c) ==
    /\ call[c].pc = "rollback"
    /\ call' = [call EXCEPT ![c].pc = "release", ![c].mod = {},
                            ![c].err = "rollback_failed"]
    /\ UNCHANGED <<edgeVars, schedVars, metricVars, norm, retry, tenantVars, entity, shape, active, natUnique, thisPool, table, checkedOut, clock, ncalls, prev, job>>

\* finally { client.release(); }
Release(c) ==
    /\ call[c].pc = "release"
    /\ checkedOut' = checkedOut - 1
    /\ call' = [call EXCEPT ![c].pc = "done", ![c].held = FALSE, ![c].released = @ + 1]
    /\ UNCHANGED <<edgeVars, schedVars, metricVars, norm, retry, tenantVars, entity, shape, active, natUnique, thisPool, table, clock, ncalls, prev, job>>

NoPrev == [n |-> 0, batch |-> <<>>, committed |-> FALSE, after |-> {}]

\* What is remembered of an invocation once it has returned or thrown.
Returned(c) ==
    [n |-> prev.n + 1, batch |-> call[c].batch, committed |-> call[c].committed,
     after |-> table]

(***************************************************************************)
(* Direct callers of upsertMany (several may be in flight at once).        *)
(***************************************************************************)
CallUpsertMany(c) ==
    /\ \E b \in Batches(entity, shape) : Invoke(c, b, "direct")
    /\ UNCHANGED <<edgeVars, schedVars, metricVars, norm, retry, tenantVars, entity, shape, active, natUnique, thisPool, table, checkedOut, clock, prev, job>>

\* A caller invokes saveToDatabase(modelName, Model, data):
\*   if (!data || data.length === 0) { ...; return; }
\*   try { await Model.upsertMany(data); ... }
\* Mutant: saveToDatabase without its guard.
NoEmptyGuard(data) == FALSE

EmptyGuard(data) == Len(data) = 0

CallSaveToDatabase(c) ==
    /\ c \in active
    /\ call[c].pc = "idle"
    /\ ncalls < MaxCalls
    /\ \E data \in Batches(entity, shape) :
          IF EmptyGuard(data)
          THEN /\ ncalls' = ncalls + 1
               /\ prev' = [NoPrev EXCEPT !.n = prev.n + 1, !.after = table]
               /\ UNCHANGED call
          ELSE /\ Invoke(c, data, "save")
               /\ UNCHANGED prev
    /\ UNCHANGED <<edgeVars, schedVars, metricVars, norm, retry, tenantVars, entity, shape, active, natUnique, thisPool, table, checkedOut, clock, job>>

\* The invocation's promise settles at its caller.
Return(c) ==
    /\ call[c].pc = "done"
    /\ call' = [call EXCEPT ![c] = IdleCall]
    /\ UNCHANGED <<edgeVars, schedVars, metricVars, norm, retry, tenantVars, entity, shape, active, natUnique, thisPool, table, checkedOut, clock, ncalls, prev, job>>

IdleJob == [pc |-> "idle", rows |-> <<>>, outcome |-> "none", saveErr |-> NoErr, runs |-> 0]

(***************************************************************************)
(* State of the parts of the program at rest: the process before any       *)
(* signal, no job run fired, the Metrics singleton as constructed, no row   *)
(* being normalized, no withRetry call.                                     *)
(***************************************************************************)
\* The process after index.js has been loaded: listening, jobs scheduled.
IdleProc == [state |-> "running", code |-> Null, ending |-> FALSE, unhandled |-> FALSE]

\* A run slot no fire has taken yet.
NoRun ==
    [job |-> "none", pc |-> "free", rows |-> "none", outcome |-> "none",
     late |-> FALSE, afterFail |-> FALSE, closed |-> FALSE]

\* constructor() { this.metrics = { cubby: { apiCalls, sync, webhooks } } }
NoSeries == [total |-> 0, success |-> 0, failure |-> 0, lastSync |-> Null, duration |-> <<>>]

MetricsConstructor ==
    [apiCalls |-> [total |-> 0, success |-> 0, failure |-> 0, byEndpoint |-> [e \in {} |-> 0]],
     sync |-> [facilities |-> NoSeries, tenants |-> NoSeries],
     webhooks |-> [total |-> 0, success |-> 0, failure |-> 0, byEvent |-> [e \in {} |-> 0]]]

\* History of what has been recorded: per category every duration in
\* recording order, the time of the last run recorded as successful and of
\* the last run recorded at all; the API calls recorded and how many of them
\* as successful; the number of track calls made in this behaviour.
NoAudit ==
    [facilities |-> [hist |-> <<>>, lastOk |-> Null, lastRun |-> Null],
     tenants |-> [hist |-> <<>>, lastOk |-> Null, lastRun |-> Null],
     api |-> [all |-> 0, ok |-> 0],
     calls |-> 0]

NoHealth == [asked |-> FALSE]

IdleNorm == [pc |-> "idle"]

\* No error raised by withRetry.
NoRaised == [kind |-> "none", label |-> "none", attempts |-> 0]

\* withRetry is not being called: no attempt made, nothing slept, no result.
IdleRetry ==
    [pc |-> "idle", label |-> "none", attempt |-> 0, outcomes |-> <<>>, slept |-> <<>>,
     result |-> Null, error |-> NoRaised]

\* No request is being served, none has been so far.
IdleWeb ==
    [pc |-> "idle", route |-> "none", n |-> 0, sig |-> <<>>, body |-> 0, code |-> FALSE,
     state |-> FALSE, status |-> 0, responses |-> 0, handled |-> FALSE]

\* An empty facilities table, no facility row of the warehouse processed.
\* (idNotNull: whether facilities.id is declared NOT NULL / PRIMARY KEY.)
NoFacilities == [rows |-> {}, synced |-> <<>>, idNotNull |-> TRUE, err |-> "none"]

\* The scheduler's clock at 00:00 of the first day, no run started.
Midnight == [minute |-> 0, started |-> <<>>]

\* The composite-key tables, empty; nothing upserted yet.  (orgIndexed:
\* whether spaces_historical has a unique index on org_id.)
NoComposite ==
    [rows |-> [e \in {"spaces_historical", "unit_turnover"} |-> {}],
     upserted |-> [e \in {"spaces_historical", "unit_turnover"} |-> <<>>],
     orgIndexed |-> TRUE, err |-> "none"]

\* Nothing is scheduled, asked, being normalized, retried or served.
Quiet ==
    /\ proc = IdleProc
    /\ runs = [r \in 1..MaxFires |-> NoRun]
    /\ health = NoHealth
    /\ norm = IdleNorm
    /\ retry = IdleRetry
    /\ web = IdleWeb
    /\ facility = NoFacilities
    /\ cron = Midnight
    /\ composite = NoComposite

\* A run of the tenant sync job that has not fired.
IdleSync ==
    [pc |-> "idle", src |-> <<>>, rows |-> <<>>, i |-> 1, found |-> 0,
     outcome |-> "none", err |-> NoErr]

TenantIdle == tenants = {} /\ sync = [r \in Runs |-> IdleSync]

InitCommon ==
    /\ entity \in Entities
    /\ shape \in Shapes(entity)
    /\ natUnique \in (IF ConflictTarget(entity) = NaturalKey(entity) THEN {TRUE} ELSE BOOLEAN)
    /\ table = {}
    /\ checkedOut = 0
    /\ clock = 1
    /\ call = [c \in Callers |-> IdleCall]
    /\ ncalls = 0
    /\ prev = NoPrev
    /\ job = IdleJob
    /\ version = "services"
    /\ TenantIdle
    /\ Quiet
    /\ metrics = MetricsConstructor
    /\ audit = NoAudit

\* upsertMany taken by itself, for both values its read of `this.pool` can
\* give: undefined, or the pool (an instance that has been handed one).
InitTxn == InitCommon /\ thisPool \in {Undefined, ThePool} /\ active = {1}

\* The same, with overlapping invocations (overlapping runs of a job).
InitOverlap == InitCommon /\ thisPool = ThePool /\ active = Callers

NextTxn ==
    \E c \in Callers :
        \/ CallUpsertMany(c)
        \/ CallSaveToDatabase(c)
        \/ Connect(c)
        \/ Begin(c)
        \/ BeginFails(c)
        \/ Statement(c)
        \/ StatementFails(c)
        \/ Commit(c)
        \/ CommitFails(c)
        \/ Rollback(c)
        \/ RollbackFails(c)
        \/ Release(c)
        \/ Return(c)

SpecTxn == InitTxn /\ [][NextTxn]_vars

NextOverlap ==
    \E c \in Callers :
        \/ CallUpsertMany(c)
        \/ Connect(c)
        \/ Begin(c)
        \/ Statement(c)
        \/ Commit(c)
        \/ Rollback(c)
        \/ Release(c)
        \/ Return(c)

SpecOverlap == InitOverlap /\ [][NextOverlap]_vars


(***************************************************************************)
(* The scheduled refresh job of the entity (index.js) and the service      *)
(* method it awaits: getUnits / getLeases / getPayments / getContacts.     *)
(***************************************************************************)
\* scheduleJob(..., async () => { try { await BigQuerySync.getUnits(); ...
JobFire ==
    /\ job.pc \in {"idle", "ended"}
    /\ job.runs < MaxRuns
    /\ job' = [IdleJob EXCEPT !.pc = "query", !.runs = job.runs + 1]
    /\ UNCHANGED <<edgeVars, schedVars, metricVars, norm, retry, tenantVars, entity, shape, active, natUnique, thisPool, table, checkedOut, clock, call, ncalls, prev>>

\* Mutant: the failure branch takes the count back from success.
IncMovesCount(c, success) ==
    [c EXCEPT !.total = @ + 1,
              !.success = IF success THEN @ + 1 ELSE @ - 1,
              !.failure = IF success THEN @ ELSE @ + 1]

\* x.total++; if (success) { x.success++; } else { x.failure++; }
Inc(c, success) ==
    [c EXCEPT !.total = @ + 1,
              !.success = IF success THEN @ + 1 ELSE @,
              !.failure = IF success THEN @ ELSE @ + 1]

\* trackApiCall(endpoint, success, duration): the metrics afterwards.
\* avgDuration = ((avgDuration * (total - 1)) + duration) / total, where
\* avgDuration * (total - 1) is the sum of the earlier durations.
trackApiCall(m, endpoint, success, duration) ==
    LET by == m.apiCalls.byEndpoint
        cur == IF endpoint \in DOMAIN by THEN by[endpoint] ELSE [total |-> 0, success |-> 0, failure |-> 0,
                                                          avgDuration |-> [num |-> 0, den |-> 1]]
        inc == Inc(cur, success)
        new == [inc EXCEPT !.avgDuration = [num |-> cur.avgDuration.num + duration,
                                            den |-> inc.total]]
        g == Inc([total |-> m.apiCalls.total, success |-> m.apiCalls.success,
                  failure |-> m.apiCalls.failure], success)
    IN  [m EXCEPT !.apiCalls =
            [total |-> g.total, success |-> g.success, failure |-> g.failure,
             byEndpoint |-> [e \in DOMAIN by \cup {endpoint} |->
                                IF e = endpoint THEN new ELSE by[e]]]]

\* The durations a caller measures (Date.now() - startTime), in ms.
Durations == {10, 20}

\* metrics.trackApiCall(operationName, success, Date.now() - startTime)
ApiCallTracked(operationName, success) ==
    /\ \E duration \in Durations :
          metrics' = trackApiCall(metrics, operationName, success, duration)
    /\ audit' = [audit EXCEPT !.api.all = @ + 1, !.api.ok = IF success THEN @ + 1 ELSE @]
    /\ UNCHANGED health

\* executeQuery: const [rows] = await this.bigquery.query(queryConfig); return rows;
ExecuteQuery ==
    /\ job.pc = "query"
    /\ \E rows \in Batches(entity, shape) : job' = [job EXCEPT !.pc = "save", !.rows = rows]
    /\ ApiCallTracked(entity, TRUE)
    /\ UNCHANGED <<edgeVars, schedVars, norm, retry, tenantVars, entity, shape, active, natUnique, thisPool, table, checkedOut, clock, call, ncalls, prev>>

\* executeQuery: catch (error) { ...; throw new Error(`Query execution failed: ...`) }
\* and the job's catch, which logs it.
ExecuteQueryFails ==
    /\ job.pc = "query"
    /\ job' = [job EXCEPT !.pc = "ended", !.outcome = "failure"]
    /\ ApiCallTracked(entity, FALSE)
    /\ UNCHANGED <<edgeVars, schedVars, norm, retry, tenantVars, entity, shape, active, natUnique, thisPool, table, checkedOut, clock, call, ncalls, prev>>

\* saveToDatabase: if (!data || data.length === 0) return; await Model.upsertMany(data);
SaveToDatabase ==
    /\ job.pc = "save"
    /\ IF EmptyGuard(job.rows)
       THEN /\ job' = [job EXCEPT !.pc = "ended", !.outcome = "success"]
            /\ UNCHANGED <<call, ncalls>>
       ELSE /\ Invoke(1, job.rows, "save")
            /\ job' = [job EXCEPT !.pc = "saving"]
    /\ UNCHANGED <<edgeVars, schedVars, metricVars, norm, retry, tenantVars, entity, shape, active, natUnique, thisPool, table, checkedOut, clock, prev>>

\* saveToDatabase after the await: return, or catch and
\* throw new Error(`Database save failed: ${error.message}`), which the job's
\* catch logs.
SaveReturns ==
    /\ job.pc = "saving"
    /\ call[1].pc = "done"
    /\ job' = [job EXCEPT !.pc = "ended",
                          !.outcome = IF call[1].err = NoErr THEN "success" ELSE "failure",
                          !.saveErr = call[1].err]
    /\ prev' = Returned(1)
    /\ call' = [call EXCEPT ![1] = IdleCall]
    /\ UNCHANGED <<edgeVars, schedVars, metricVars, norm, retry, tenantVars, entity, shape, active, natUnique, thisPool, table, checkedOut, clock, ncalls>>

\* The program as it is constructed: module.exports = new Unit() etc.
Init == InitCommon /\ thisPool = BaseModelConstructor /\ active = {1}

Next ==
    \/ JobFire
    \/ ExecuteQuery
    \/ ExecuteQueryFails
    \/ SaveToDatabase
    \/ Connect(1)
    \/ SaveReturns

Spec == Init /\ [][Next]_vars


(***************************************************************************)
(* The tenant sync: cron.schedule(..., () => BigQuerySync.syncTenantData())*)
(* and the existence-check-then-branch reconciliation it performs with     *)
(* BaseModel.findAll / update / create.  Two syncTenantData exist in the   *)
(* repository (services/BigQuerySync.js and the one carried in             *)
(* middleware/gmbAuth.js); `version` says which one the job runs.          *)
(***************************************************************************)
MaxTenantRows == 1  \* rows the warehouse returns to one run
MaxFacility == 1    \* facility ids
MaxUnit == 2        \* unit numbers
MaxStamp == 1       \* source timestamps

Versions == {"services", "gmbAuth"}

\* A row of the warehouse's tenant_data table.
SourceRows ==
    [facility_id : 1..MaxFacility, unit_number : 1..MaxUnit,
     payment_status : {"current", "late"}, auction_status : BOOLEAN,
     balance : {0, 10}, updated_at : 0..MaxStamp]

\* The columns each query selects (of those modelled).
ServicesSelect == {"facility_id", "unit_number", "payment_status"}
GmbAuthSelect == {"facility_id", "unit_number", "updated_at"}
Select(v) == IF v = "services" THEN ServicesSelect ELSE GmbAuthSelect

\* const [rows] = await this.bigquery.query({ query }): a row object has the
\* selected columns only; reading any other property gives undefined.
QueryRow(v, src) == [k \in Select(v) |-> src[k]]

\* determineGoodStanding(tenant):
\*   tenant.payment_status === 'current' && !tenant.auction_status && tenant.balance <= 0
\* (undefined === 'current' is false, !undefined is true, undefined <= 0 is false)
determineGoodStanding(tenant) ==
    /\ "payment_status" \in DOMAIN tenant /\ tenant["payment_status"] = "current"
    /\ ~("auction_status" \in DOMAIN tenant /\ tenant["auction_status"])
    /\ "balance" \in DOMAIN tenant /\ tenant["balance"] <= 0

\* services: const isGoodStanding = row.payment_status === 'current';
ServicesGoodStanding(row) ==
    "payment_status" \in DOMAIN row /\ row["payment_status"] = "current"

IsGoodStanding(v, row) ==
    IF v = "services" THEN ServicesGoodStanding(row) ELSE determineGoodStanding(row)

\* Object.keys(tenantData), of the properties modelled.
ServicesTenantDataKeys == {"facility_id", "unit_number", "is_good_standing"}
GmbAuthTenantDataKeys ==
    {"facility_id", "unit_number", "is_good_standing", "created_at", "updated_at"}
TenantDataKeys(v) == IF v = "services" THEN ServicesTenantDataKeys ELSE GmbAuthTenantDataKeys

\* row.<column>, sent as a statement parameter: undefined is sent as NULL.
Param(row, k) == IF k \in DOMAIN row THEN row[k] ELSE Null

\* const tenantData = { facility_id: row.facility_id, ..., is_good_standing: isGoodStanding, ... }
TenantData(v, row) ==
    [k \in TenantDataKeys(v) |->
        IF k = "is_good_standing" THEN IsGoodStanding(v, row) ELSE Param(row, k)]

TenantBatches ==
    UNION {[1..n -> SourceRows] : n \in 0..MaxTenantRows}

\* cron.schedule(..., async () => { try { ... await BigQuerySync.syncTenantData() ...
\* node-cron fires on the tick whether or not an earlier run has ended.
CronFire(r) ==
    /\ sync[r].pc = "idle"
    /\ sync' = [sync EXCEPT ![r].pc = "query"]
    /\ UNCHANGED <<edgeVars, schedVars, metricVars, norm, retry, version, tenants, entity, shape, active, natUnique, thisPool, table,
                   checkedOut, clock, call, ncalls, prev, job>>

\* const [rows] = await this.bigquery.query({ query });
TenantQuery(r) ==
    /\ sync[r].pc = "query"
    /\ \E src \in TenantBatches :
          sync' = [sync EXCEPT ![r].pc = "find", ![r].src = src, ![r].i = 1,
                               ![r].rows = [j \in DOMAIN src |-> QueryRow(version, src[j])]]
    /\ UNCHANGED <<edgeVars, schedVars, metricVars, norm, retry, version, tenants, entity, shape, active, natUnique, thisPool, table,
                   checkedOut, clock, call, ncalls, prev, job>>

\* The query rejects: catch (error) { logger.error(...); throw error; } and the
\* job's own catch logs it.
TenantQueryFails(r) ==
    /\ sync[r].pc = "query"
    /\ sync' = [sync EXCEPT ![r].pc = "ended", ![r].outcome = "failure",
                            ![r].err = "query_failed"]
    /\ UNCHANGED <<edgeVars, schedVars, metricVars, norm, retry, version, tenants, entity, shape, active, natUnique, thisPool, table,
                   checkedOut, clock, call, ncalls, prev, job>>

\* BaseModel.findAll(conditions, orderBy = 'created_at DESC'):
\*   SELECT * FROM tenants WHERE facility_id = $1 AND unit_number = $2 ORDER BY created_at DESC
Matching(f, u) == {t \in tenants : t.facility_id = f /\ t.unit_number = u}

\* The rows that may come first under ORDER BY created_at DESC (NULLs sort
\* first in descending order; equal keys come in any order).
FirstOf(rs) ==
    IF \E t \in rs : t.created_at = Null
    THEN {t \in rs : t.created_at = Null}
    ELSE {t \in rs : \A o \in rs : o.created_at <= t.created_at}

\* const existingTenants = await Tenant.findAll({ facility_id, unit_number });
\* existingTenants[0].id is kept (0 when the list is empty).
FindAll(r) ==
    /\ sync[r].pc = "find"
    /\ sync[r].i <= Len(sync[r].rows)
    /\ LET row == sync[r].rows[sync[r].i]
           rs == Matching(row["facility_id"], row["unit_number"])
       IN  IF rs = {}
           THEN sync' = [sync EXCEPT ![r].pc = "write", ![r].found = 0]
           ELSE \E t \in FirstOf(rs) :
                   sync' = [sync EXCEPT ![r].pc = "write", ![r].found = t.id]
    /\ UNCHANGED <<edgeVars, schedVars, metricVars, norm, retry, version, tenants, entity, shape, active, natUnique, thisPool, table,
                   checkedOut, clock, call, ncalls, prev, job>>

\* BaseModel.update(id, data):
\*   UPDATE tenants SET <key = $n for each key of data>, updated_at = CURRENT_TIMESTAMP
\*   WHERE id = $1
\* The store rejects a SET list that assigns one column twice.
UpdateError(data) ==
    IF "updated_at" \in DOMAIN data THEN "multiple_assignments" ELSE NoErr

UpdateRow(t, data, src, now) ==
    [id |-> t.id,
     facility_id |-> data["facility_id"],
     unit_number |-> data["unit_number"],
     is_good_standing |-> data["is_good_standing"],
     created_at |-> IF "created_at" \in DOMAIN data THEN data["created_at"] ELSE t.created_at,
     updated_at |-> now,
     from |-> src]

\* The tenants table (schema.sql is not among the sources): rows are
\* identified by their serial id and no unique index covers the pair
\* (facility_id, unit_number).
TenantPairUnique == FALSE

\* The store rejects an insert that a unique index forbids.
CreateError(data) ==
    IF TenantPairUnique /\ Matching(data["facility_id"], data["unit_number"]) # {}
    THEN "unique_violation" ELSE NoErr

\* BaseModel.create(data): INSERT INTO tenants (<keys of data>) VALUES (...)
\* Columns not named take their defaults: a fresh serial id and the current
\* time for created_at and updated_at.
CreateRow(data, src, now) ==
    [id |-> Cardinality(tenants) + 1,
     facility_id |-> data["facility_id"],
     unit_number |-> data["unit_number"],
     is_good_standing |-> data["is_good_standing"],
     created_at |-> IF "created_at" \in DOMAIN data THEN data["created_at"] ELSE now,
     updated_at |-> IF "updated_at" \in DOMAIN data THEN data["updated_at"] ELSE now,
     from |-> src]

\* if (existingTenants.length > 0) { await Tenant.update(existingTenants[0].id, tenantData); }
\* else { await Tenant.create(tenantData); }
\* A rejected statement leaves the loop through the catch, which rethrows.
TenantWrite(r) ==
    /\ sync[r].pc = "write"
    /\ LET src == sync[r].src[sync[r].i]
           data == TenantData(version, sync[r].rows[sync[r].i])
       IN  IF sync[r].found # 0
           THEN IF UpdateError(data) # NoErr
                THEN /\ sync' = [sync EXCEPT ![r].pc = "ended", ![r].outcome = "failure",
                                             ![r].err = UpdateError(data)]
                     /\ UNCHANGED <<tenants, clock>>
                ELSE /\ tenants' = {IF t.id = sync[r].found
                                    THEN UpdateRow(t, data, src, clock) ELSE t : t \in tenants}
                     /\ clock' = clock + 1
                     /\ sync' = [sync EXCEPT ![r].pc = "find", ![r].i = @ + 1]
           ELSE IF CreateError(data) # NoErr
                THEN /\ sync' = [sync EXCEPT ![r].pc = "ended", ![r].outcome = "failure",
                                             ![r].err = CreateError(data)]
                     /\ UNCHANGED <<tenants, clock>>
                ELSE /\ tenants' = tenants \cup {CreateRow(data, src, clock)}
                     /\ clock' = clock + 1
                     /\ sync' = [sync EXCEPT ![r].pc = "find", ![r].i = @ + 1]
    /\ UNCHANGED <<edgeVars, schedVars, metricVars, norm, retry, version, entity, shape, active, natUnique, thisPool, table,
                   checkedOut, call, ncalls, prev, job>>

\* logger.info(`Successfully synced ...`); return rows.length;
SyncReturns(r) ==
    /\ sync[r].pc = "find"
    /\ sync[r].i > Len(sync[r].rows)
    /\ sync' = [sync EXCEPT ![r].pc = "ended", ![r].outcome = "success"]
    /\ UNCHANGED <<edgeVars, schedVars, metricVars, norm, retry, version, tenants, entity, shape, active, natUnique, thisPool, table,
                   checkedOut, clock, call, ncalls, prev, job>>

InitTenant ==
    /\ version \in Versions
    /\ TenantIdle
    /\ Quiet
    /\ metrics = MetricsConstructor
    /\ audit = NoAudit
    /\ entity = "units"
    /\ shape = {"unit_id", "val"}
    /\ natUnique = TRUE
    /\ thisPool = BaseModelConstructor
    /\ active = {}
    /\ table = {}
    /\ checkedOut = 0
    /\ clock = 1
    /\ call = [c \in Callers |-> IdleCall]
    /\ ncalls = 0
    /\ prev = NoPrev
    /\ job = IdleJob

NextTenant ==
    \E r \in Runs :
        \/ CronFire(r)
        \/ TenantQuery(r)
        \/ TenantQueryFails(r)
        \/ FindAll(r)
        \/ TenantWrite(r)
        \/ SyncReturns(r)

SpecTenant == InitTenant /\ [][NextTenant]_vars


(***************************************************************************)
(* Properties                                                              *)
(***************************************************************************)
RowsWithKey(k) == {row \in table : row.key = k}

DistinctKeys(b) ==
    \A i, j \in DOMAIN b : i # j => RecKey(entity, b[i]) # RecKey(entity, b[j])

\* The payload of the last record of the batch that carries key k.
LastVal(b, k) == b[Max({i \in DOMAIN b : RecKey(entity, b[i]) = k})]["val"]

\* Errors raised by the store (a TypeError of the program is not one).
StoreErrors ==
    {"connect_timeout", "begin_failed", "statement_failed", "commit_failed",
     "rollback_failed", "syntax_error", "multiple_assignments", "unique_violation"}

\* C1: once the job has saved the same batch of N records with distinct keys
\* twice in a row, the table holds exactly N rows, each with the payload of the
\* second run and an updated_at not older than after the first run.
C1_Idempotent ==
    ( /\ job.pc = "saving"
      /\ call[1].pc = "done"
      /\ prev.n = 1
      /\ prev.batch = job.rows
      /\ DistinctKeys(job.rows) )
    => /\ Cardinality(table) = Len(job.rows)
       /\ \A i \in DOMAIN job.rows :
            \E row \in table :
               /\ row.key = RecKey(entity, job.rows[i])
               /\ row.val = job.rows[i]["val"]
               /\ \A old \in prev.after :
                    old.key = row.key => row.updated_at >= old.updated_at

C3_BatchAtomic ==
    \A c \in Callers :
        call[c].pc = "done" =>
            IF call[c].committed
            THEN call[c].err = NoErr
            ELSE call[c].err # NoErr /\ table = call[c].pre

\* C3 witness: the second record of a batch failed at the store after the first
\* had been written, with rows in the table before the call.
C3_Witness ==
    \E c \in Callers :
        /\ call[c].pc = "done"
        /\ call[c].err = "statement_failed"
        /\ call[c].i = 2
        /\ call[c].pre # {}
        /\ thisPool = ThePool

\* C4: the pool's count of checked-out connections is the number of invocations
\* holding one and never exceeds the maximum; an invocation that obtained a
\* connection has released it exactly once when it ends, whichever way it ends,
\* so with no invocation in progress no connection is checked out.
C4_ReleasedOnce ==
    /\ checkedOut = Cardinality({c \in Callers : call[c].held})
    /\ checkedOut <= PoolMax
    /\ \A c \in Callers :
         /\ call[c].pc \in {"idle", "done"} => ~call[c].held
         /\ call[c].pc = "done" =>
               call[c].released = (IF call[c].acquired THEN 1 ELSE 0)
    /\ (\A c \in Callers : call[c].pc \in {"idle", "done"}) => checkedOut = 0

\* C4 witness: an invocation whose ROLLBACK failed has ended, its connection
\* released once.
C4_Witness ==
    \E c \in Callers :
        /\ call[c].pc = "done"
        /\ call[c].err = "rollback_failed"
        /\ call[c].acquired
        /\ call[c].released = 1
        /\ checkedOut = 0

\* C5: a job run whose query returned records and during which the store
\* raised no error ends in success, with a row for every returned key.
C5_Lifecycle ==
    ( /\ job.pc = "ended"
      /\ Len(job.rows) > 0
      /\ job.saveErr \notin StoreErrors )
    => /\ job.outcome = "success"
       /\ \A i \in DOMAIN job.rows : RowsWithKey(RecKey(entity, job.rows[i])) # {}

C9_OneTenantPerPair ==
    \A t1, t2 \in tenants :
        (t1.facility_id = t2.facility_id /\ t1.unit_number = t2.unit_number) => t1.id = t2.id

\* C10: every tenant row written by the tenant sync stores is_good_standing
\* true iff its source row has payment status 'current', no active auction
\* status and a balance <= 0.
C10_GoodStanding ==
    \A t \in tenants :
        t.is_good_standing <=>
            (t.from.payment_status = "current" /\ ~t.from.auction_status /\ t.from.balance <= 0)


(***************************************************************************)
(* The scheduler and the process (index.js): the jobs registered by        *)
(* scheduleBigQueryJobs and scheduleCubbySync, each an async callback that  *)
(* awaits its operation inside try/catch, and the SIGTERM/SIGINT handlers.  *)
(* An operation is a BigQuerySync.get* method: executeQuery, then           *)
(* saveToDatabase.                                                          *)
(***************************************************************************)
\* The operations scheduleBigQueryJobs registers, in the order it registers
\* them.
JobList ==
    <<"getUnits", "getPayments", "getCustomerTouches", "getBookEntries", "getContacts",
      "getGAEvents", "getLeads", "getLeases", "getManagers", "getPricingGroups",
      "getSpacesHistorical", "getUnitTurnover">>

\* The jobs of the model: the first MaxJobs of them, and the Cubby sync job
\* registered by scheduleCubbySync.
SchedJobs ==
    {JobList[i] : i \in {k \in DOMAIN JobList : k <= MaxJobs}} \cup {"cubbySync"}

\* The Cubby job's call (CubbyPMS.syncFacilities) is commented out: its body
\* only logs.
HasOperation(j) == j # "cubbySync"

\* The timer of job j fires: the callback starts whether or not an earlier
\* run of the job is still in flight (nothing cancels a job, not even the
\* shutdown handler).
Fire(j) ==
    /\ proc.state = "running"
    /\ \E r \in DOMAIN runs :
          /\ runs[r].pc = "free"
          /\ \A q \in DOMAIN runs : q < r => runs[q].pc # "free"
          /\ runs' = [runs EXCEPT ![r] =
                        [NoRun EXCEPT !.job = j,
                                      !.pc = IF HasOperation(j) THEN "query" ELSE "ended",
                                      !.outcome = IF HasOperation(j) THEN "none" ELSE "success",
                                      !.late = proc.ending,
                                      !.afterFail = \E q \in DOMAIN runs : runs[q].outcome = "failure"]]
    /\ UNCHANGED <<edgeVars, proc, batchVars, tenantVars, metricVars, norm, retry>>

\* const units = await BigQuerySync.getUnits(); logger.info(`Successfully ...`)
JobSucceeds(r) ==
    /\ runs' = [runs EXCEPT ![r].pc = "ended", ![r].outcome = "success"]
    /\ proc' = proc

\* Mutant: the callback without its catch; the rejection reaches
\* process.on('unhandledRejection'), which exits with code 1.
JobRethrows(r) ==
    /\ runs' = [runs EXCEPT ![r].pc = "ended", ![r].outcome = "failure"]
    /\ proc' = [proc EXCEPT !.state = "exited", !.code = 1, !.unhandled = TRUE]

\* } catch (error) { logger.error(`Failed to complete ${jobName}:`, ...) }
JobCatch(r) ==
    /\ runs' = [runs EXCEPT ![r].pc = "ended", ![r].outcome = "failure"]
    /\ proc' = proc

\* executeQuery resolves with the rows of the warehouse.
QueryResolves(r) ==
    /\ proc.state = "running"
    /\ runs[r].pc = "query"
    /\ \E rows \in {"empty", "some"} :
          runs' = [runs EXCEPT ![r].pc = "save", ![r].rows = rows]
    /\ ApiCallTracked(runs[r].job, TRUE)
    /\ UNCHANGED <<edgeVars, proc, batchVars, tenantVars, norm, retry>>

\* executeQuery throws 'Query execution failed: ...'; the job's catch logs it.
QueryRejects(r) ==
    /\ proc.state = "running"
    /\ runs[r].pc = "query"
    /\ JobCatch(r)
    /\ ApiCallTracked(runs[r].job, FALSE)
    /\ UNCHANGED <<edgeVars, batchVars, tenantVars, norm, retry>>

\* saveToDatabase settles: nothing to save; or upsertMany throws at
\* this.pool.connect() on an instance without a pool; or the pool is used,
\* and a pool on which end() has been called rejects the connect.
SaveSettles(r) ==
    /\ proc.state = "running"
    /\ runs[r].pc = "save"
    /\ IF runs[r].rows = "empty" THEN JobSucceeds(r)
       ELSE IF thisPool = Undefined THEN JobCatch(r)
       ELSE IF proc.ending
            THEN /\ runs' = [runs EXCEPT ![r].pc = "ended", ![r].outcome = "failure",
                                         ![r].closed = TRUE]
                 /\ proc' = proc
            ELSE JobSucceeds(r)
    /\ UNCHANGED <<edgeVars, batchVars, tenantVars, metricVars, norm, retry>>

\* process.on('SIGTERM' / 'SIGINT', async () => { logger.info(...); await pool.end(); ...
\* up to the await: the pool stops handing out connections.
Signal(sig) ==
    /\ proc.state = "running"
    /\ ~proc.ending
    /\ proc' = [proc EXCEPT !.ending = TRUE]
    /\ UNCHANGED <<edgeVars, runs, batchVars, tenantVars, metricVars, norm, retry>>

\* ... pool.end() resolves once every checked-out client has been released;
\* logger.info('Database pool closed'); process.exit(0); })
PoolEnded ==
    /\ proc.state = "running"
    /\ proc.ending
    /\ checkedOut = 0
    /\ proc' = [proc EXCEPT !.state = "exited", !.code = 0]
    /\ UNCHANGED <<edgeVars, runs, batchVars, tenantVars, metricVars, norm, retry>>

InitSched ==
    /\ Quiet
    /\ metrics = MetricsConstructor
    /\ audit = NoAudit
    /\ version = "services"
    /\ TenantIdle
    /\ entity = "units"
    /\ shape = {"unit_id", "val"}
    /\ natUnique = TRUE
    /\ thisPool = BaseModelConstructor
    /\ active = {}
    /\ table = {}
    /\ checkedOut = 0
    /\ clock = 1
    /\ call = [c \in Callers |-> IdleCall]
    /\ ncalls = 0
    /\ prev = NoPrev
    /\ job = IdleJob

NextSched ==
    \/ \E j \in SchedJobs : Fire(j)
    \/ \E r \in DOMAIN runs : QueryResolves(r) \/ QueryRejects(r) \/ SaveSettles(r)
    \/ \E sig \in {"SIGTERM", "SIGINT"} : Signal(sig)
    \/ PoolEnded

SpecSched == InitSched /\ [][NextSched]_vars

\* C11: an exception of a job's operation is caught at the job boundary: no
\* unhandled rejection, the process exits only through its shutdown handler,
\* every ended run has logged success or failure, and while the process runs
\* every job can still fire, whatever runs have failed.
C11_Isolation ==
    /\ ~proc.unhandled
    /\ proc.state = "exited" => (proc.ending /\ proc.code = 0)
    /\ \A r \in DOMAIN runs : runs[r].pc = "ended" => runs[r].outcome \in {"success", "failure"}
    /\ (proc.state = "running" /\ \E r \in DOMAIN runs : runs[r].pc = "free")
          => \A j \in SchedJobs : ENABLED Fire(j)

\* C11 witness: a run failed; afterwards the same job fired again and ran to
\* its end, and another job fired and succeeded, the process still running.
C11_Witness ==
    /\ proc.state = "running"
    /\ ~proc.ending
    /\ \E r1, r2, r3 \in DOMAIN runs :
          /\ runs[r1].outcome = "failure"
          /\ r1 < r2 /\ runs[r2].afterFail /\ runs[r2].job = runs[r1].job /\ runs[r2].pc = "ended"
          /\ r1 < r3 /\ runs[r3].afterFail /\ runs[r3].job # runs[r1].job
          /\ runs[r3].outcome = "success"

\* C12: after SIGTERM or SIGINT no job run starts, no run is in flight when
\* the process exits, and no run finds the pool closed.
C12_Cooperative ==
    /\ \A r \in DOMAIN runs : ~runs[r].late /\ ~runs[r].closed
    /\ proc.state = "exited" => \A r \in DOMAIN runs : runs[r].pc \in {"free", "ended"}


(***************************************************************************)
(* Metrics (utils/metrics.js): the counters, the per-category sync series  *)
(* and the health verdict derived from them.  The clock counts hours.      *)
(***************************************************************************)
\* if (metrics.duration.length > 100) metrics.duration.shift();
DurationCap == 100

WarmApi == 19      \* API calls already recorded in a warmed-up start state
WarmSyncs == DurationCap - 1    \* sync runs already recorded per category in that state

\* new Date(now.getTime() - (6 * 60 * 60 * 1000))
SixHours == 6

\* (success / total) > 0.95, as a percentage
ApiThresholdPct == 95

Endpoints == {"getUnits", "getLeases"}
Events == {"tenant.created", "facility.updated"}
Categories == {"facilities", "tenants"}

\* Mutant: the newest sample is dropped instead of the oldest.
trackSyncPops(series, success, duration, now) ==
    LET inc == Inc(series, success)
        pushed == Append(series.duration, duration)
    IN  [inc EXCEPT !.lastSync = now,
                    !.duration = IF Len(pushed) > DurationCap
                                 THEN SubSeq(pushed, 1, Len(pushed) - 1) ELSE pushed]

\* trackFacilitySync / trackTenantSync(success, count, duration) on the
\* category's series: count, lastSync = new Date(), push the duration and
\* shift the oldest out once more than 100 are held.
trackSync(series, success, duration, now) ==
    LET inc == Inc(series, success)
        pushed == Append(series.duration, duration)
    IN  [inc EXCEPT !.lastSync = now,
                    !.duration = IF Len(pushed) > DurationCap THEN Tail(pushed) ELSE pushed]

\* trackWebhook(event, success): the metrics afterwards.
trackWebhook(m, event, success) ==
    LET by == m.webhooks.byEvent
        cur == IF event \in DOMAIN by THEN by[event]
               ELSE [total |-> 0, success |-> 0, failure |-> 0]
        g == Inc([total |-> m.webhooks.total, success |-> m.webhooks.success,
                  failure |-> m.webhooks.failure], success)
    IN  [m EXCEPT !.webhooks =
            [total |-> g.total, success |-> g.success, failure |-> g.failure,
             byEvent |-> [e \in DOMAIN by \cup {event} |->
                             IF e = event THEN Inc(cur, success) ELSE by[e]]]]

\* Mutant: a category is healthy when all its recorded runs succeeded.
SyncHealthyByRate(series, now) == series.total > 0 /\ series.success = series.total

\* facilitySync.lastSync && facilitySync.lastSync > sixHoursAgo
SyncHealthy(series, now) ==
    series.lastSync # Null /\ series.lastSync > now - SixHours

\* Mutant: the threshold is met by a ratio of exactly 95%.
ApiHealthyAtThreshold(api) ==
    api.total > 0 /\ api.success * 100 >= ApiThresholdPct * api.total

\* apiCalls.total > 0 && (apiCalls.success / apiCalls.total) > 0.95
ApiHealthy(api) ==
    api.total > 0 /\ api.success * 100 > ApiThresholdPct * api.total

\* getHealthStatus(): the object it returns.
getHealthStatus(m, now) ==
    LET facilitySyncHealthy == SyncHealthy(m.sync.facilities, now)
        tenantSyncHealthy == SyncHealthy(m.sync.tenants, now)
        apiHealth == ApiHealthy(m.apiCalls)
        verdict(b) == IF b THEN "healthy" ELSE "unhealthy"
        \* total > 0 ? (success / total) * 100 : 0, as the fraction num/den
        successRate(c) == IF c.total > 0 THEN [num |-> c.success * 100, den |-> c.total]
                          ELSE [num |-> 0, den |-> 1]
    IN  [asked |-> TRUE,
         now |-> now,
         status |-> verdict(facilitySyncHealthy /\ tenantSyncHealthy /\ apiHealth),
         facilities |-> [status |-> verdict(facilitySyncHealthy),
                         lastSync |-> m.sync.facilities.lastSync,
                         successRate |-> successRate(m.sync.facilities)],
         tenants |-> [status |-> verdict(tenantSyncHealthy),
                      lastSync |-> m.sync.tenants.lastSync,
                      successRate |-> successRate(m.sync.tenants)],
         api |-> [status |-> verdict(apiHealth), successRate |-> successRate(m.apiCalls)]]

\* A caller (executeQuery, the request middleware) records an API call.
TrackApiCall ==
    /\ audit.calls < MaxTracks
    /\ \E endpoint \in Endpoints, success \in BOOLEAN, duration \in Durations :
          /\ metrics' = trackApiCall(metrics, endpoint, success, duration)
          /\ audit' = [audit EXCEPT !.calls = @ + 1, !.api.all = @ + 1,
                                    !.api.ok = IF success THEN @ + 1 ELSE @]
    /\ health' = NoHealth
    /\ UNCHANGED <<edgeVars, batchVars, tenantVars, schedVars, norm, retry>>

\* A sync of the category is recorded (trackFacilitySync / trackTenantSync).
TrackSync(cat) ==
    /\ audit.calls < MaxTracks
    /\ \E success \in BOOLEAN, duration \in Durations :
          /\ metrics' = [metrics EXCEPT !.sync[cat] = trackSync(@, success, duration, clock)]
          /\ audit' = [audit EXCEPT !.calls = @ + 1,
                                    ![cat].hist = Append(@, duration),
                                    ![cat].lastRun = clock,
                                    ![cat].lastOk = IF success THEN clock ELSE @]
    /\ health' = NoHealth
    /\ UNCHANGED <<edgeVars, batchVars, tenantVars, schedVars, norm, retry>>

\* A webhook is recorded.
TrackWebhook ==
    /\ audit.calls < MaxTracks
    /\ \E event \in Events, success \in BOOLEAN :
          metrics' = trackWebhook(metrics, event, success)
    /\ audit' = [audit EXCEPT !.calls = @ + 1]
    /\ health' = NoHealth
    /\ UNCHANGED <<edgeVars, batchVars, tenantVars, schedVars, norm, retry>>

\* GET /health: const healthStatus = metrics.getHealthStatus();
GetHealthStatus ==
    /\ health = NoHealth
    /\ health' = getHealthStatus(metrics, clock)
    /\ UNCHANGED <<edgeVars, metrics, audit, batchVars, tenantVars, schedVars, norm, retry>>

\* An hour passes.
Tick ==
    /\ clock < MaxClock
    /\ clock' = clock + 1
    /\ health' = NoHealth
    /\ UNCHANGED <<edgeVars, metrics, audit, tenantVars, schedVars, norm, retry,
                   entity, shape, active, natUnique, thisPool, table, checkedOut, call,
                   ncalls, prev, job>>

\* The series after the successful runs lo..hi have been recorded on it in
\* order at hour 0, the i-th with duration i.
RECURSIVE Replay(_, _, _)
Replay(series, lo, hi) ==
    IF lo > hi THEN series
    ELSE IF lo = hi THEN trackSync(series, TRUE, lo, 0)
    ELSE LET mid == (lo + hi) \div 2
             first == Replay(series, lo, mid)
         IN  \* the first half is computed before the second is started
             IF first.total <= series.total THEN first ELSE Replay(first, mid + 1, hi)

\* The metrics after na successful API calls and ns successful runs of each
\* category.
RECURSIVE WarmMetrics(_, _)
WarmMetrics(na, ns) ==
    IF na = 0
    THEN [MetricsConstructor EXCEPT !.sync = [facilities |-> Replay(NoSeries, 1, ns),
                                              tenants |-> Replay(NoSeries, 1, ns)]]
    ELSE trackApiCall(WarmMetrics(na - 1, ns), "getUnits", TRUE, 10)

WarmAudit ==
    [facilities |-> [hist |-> [i \in 1..WarmSyncs |-> i], lastOk |-> 0, lastRun |-> 0],
     tenants |-> [hist |-> [i \in 1..WarmSyncs |-> i], lastOk |-> 0, lastRun |-> 0],
     api |-> [all |-> WarmApi, ok |-> WarmApi],
     calls |-> 0]

InitMetrics ==
    /\ \/ metrics = MetricsConstructor /\ audit = NoAudit
       \/ metrics = WarmMetrics(WarmApi, WarmSyncs) /\ audit = WarmAudit
    /\ Quiet
    /\ clock = 0
    /\ version = "services"
    /\ TenantIdle
    /\ entity = "units"
    /\ shape = {"unit_id", "val"}
    /\ natUnique = TRUE
    /\ thisPool = BaseModelConstructor
    /\ active = {}
    /\ table = {}
    /\ checkedOut = 0
    /\ call = [c \in Callers |-> IdleCall]
    /\ ncalls = 0
    /\ prev = NoPrev
    /\ job = IdleJob

NextMetrics ==
    \/ TrackApiCall
    \/ TrackSync("facilities")
    \/ TrackSync("tenants")
    \/ TrackWebhook
    \/ GetHealthStatus
    \/ Tick

SpecMetrics == InitMetrics /\ [][NextMetrics]_vars

(***************************************************************************)
(* Properties of the metrics and of the health verdict.                    *)
(***************************************************************************)
\* C13: getHealthStatus reports a sync category healthy iff the category's
\* last run recorded as successful lies within the last six hours; a run
\* recorded as failed neither makes nor keeps the category healthy.
C13_HealthyIffFreshSuccess ==
    health.asked =>
        \A cat \in Categories :
            (health[cat].status = "healthy")
                <=> (/\ audit[cat].lastOk # Null
                     /\ health.now - audit[cat].lastOk < 6)

\* C14: a category whose most recent recorded run is more than six hours old,
\* or that has never been recorded, is reported unhealthy and makes the
\* overall status unhealthy, whatever its success rate and the API ratio.
C14_StaleIsUnhealthy ==
    health.asked =>
        \A cat \in Categories :
            (audit[cat].lastRun = Null \/ health.now - audit[cat].lastRun > 6)
                => (health[cat].status = "unhealthy" /\ health.status = "unhealthy")

\* A category with only successful runs, last recorded seven hours ago, and a
\* healthy API ratio: the category and the overall status are unhealthy.
C14_Witness ==
    /\ health.asked
    /\ \E cat \in Categories :
          /\ audit[cat].lastRun # Null
          /\ health.now - audit[cat].lastRun = 7
          /\ metrics.sync[cat].total > 0
          /\ metrics.sync[cat].success = metrics.sync[cat].total
          /\ health[cat].status = "unhealthy"
    /\ health.api.status = "healthy"
    /\ health.status = "unhealthy"

\* C15: the API verdict is healthy iff at least one call has been recorded
\* and successes/total is strictly above 95% (19 out of 20 is unhealthy).
C15_ApiThreshold ==
    health.asked =>
        ((health.api.status = "healthy")
            <=> (audit.api.all > 0 /\ audit.api.ok * 20 > audit.api.all * 19))

\* Exactly 19 successes out of 20 recorded calls: unhealthy.
C15_Witness ==
    /\ health.asked
    /\ audit.api.all = 20
    /\ audit.api.ok = 19
    /\ health.api.status = "unhealthy"

\* Every counter triple of the metrics: the global ones and the ones per
\* endpoint and per event (all zero while the key is absent).
CounterKeys == {"api", "facilities", "tenants", "webhooks"} \cup Endpoints \cup Events

CounterAt(m, k) ==
    LET of(c) == [total |-> c.total, success |-> c.success, failure |-> c.failure]
    IN  IF k = "api" THEN of(m.apiCalls)
        ELSE IF k = "webhooks" THEN of(m.webhooks)
        ELSE IF k \in Categories THEN of(m.sync[k])
        ELSE IF k \in DOMAIN m.apiCalls.byEndpoint THEN of(m.apiCalls.byEndpoint[k])
        ELSE IF k \in DOMAIN m.webhooks.byEvent THEN of(m.webhooks.byEvent[k])
        ELSE [total |-> 0, success |-> 0, failure |-> 0]

\* C16: no total, success or failure counter ever decreases; a call raises
\* the matching total by one together with exactly one of success and
\* failure, so total = success + failure in every reachable state.
C16_Counters ==
    /\ [](\A k \in CounterKeys :
            CounterAt(metrics, k).total
                = CounterAt(metrics, k).success + CounterAt(metrics, k).failure)
    /\ [][/\ \A k \in CounterKeys :
                LET c == CounterAt(metrics, k)
                    d == CounterAt(metrics', k)
                IN  \/ d = c
                    \/ /\ d.total = c.total + 1
                       /\ \/ d.success = c.success + 1 /\ d.failure = c.failure
                          \/ d.success = c.success /\ d.failure = c.failure + 1
          /\ audit'.calls # audit.calls =>
                \E k \in CounterKeys :
                    CounterAt(metrics', k).total = CounterAt(metrics, k).total + 1]_vars

\* An endpoint with a success and a failure recorded, and a webhook recorded.
C16_Witness ==
    /\ \E e \in DOMAIN metrics.apiCalls.byEndpoint :
          /\ metrics.apiCalls.byEndpoint[e].success > 0
          /\ metrics.apiCalls.byEndpoint[e].failure > 0
    /\ metrics.webhooks.total > 0
    /\ \E e \in DOMAIN metrics.webhooks.byEvent : metrics.webhooks.byEvent[e].total > 0

LastN(s, n) == SubSeq(s, Len(s) - n + 1, Len(s))

\* C17: after n recorded runs of a category its duration list holds the most
\* recent min(n, 100) durations in recording order, never more than 100.
C17_DurationWindow ==
    \A cat \in Categories :
        LET hist == audit[cat].hist
            n == Len(hist)
        IN  /\ Len(metrics.sync[cat].duration) <= 100
            /\ metrics.sync[cat].duration = LastN(hist, IF n < 100 THEN n ELSE 100)

\* The 101st run of a category has been recorded: 100 samples are held and
\* the first of them is the second one recorded.
C17_Witness ==
    \E cat \in Categories :
        /\ Len(audit[cat].hist) = 101
        /\ Len(metrics.sync[cat].duration) = 100
        /\ metrics.sync[cat].duration[1] = audit[cat].hist[2]
        /\ metrics.sync[cat].duration[100] = audit[cat].hist[101]

(***************************************************************************)
(* Field normalization (services/BigQuerySync.js): processDateField,       *)
(* processNumericField and the row mapping of the refresh operations.      *)
(* JavaScript values carry their type; a string is the tuple of its        *)
(* characters; a number is the fraction num/den (den = 0: NaN).            *)
(***************************************************************************)
JsUndefined == [t |-> "undefined"]
JsNull == [t |-> "null"]
JsString(chars) == [t |-> "string", s |-> chars]
JsNumber(num, den) == [t |-> "number", num |-> num, den |-> den]
NaN == JsNumber(0, 0)
\* The warehouse client's date carrier: an object with a value property.
JsCarrier(v) == [t |-> "object", value |-> v]

\* ToBoolean: undefined, null, "", 0 and NaN are falsy; objects are truthy.
Truthy(v) ==
    CASE v.t = "undefined" -> FALSE
      [] v.t = "null" -> FALSE
      [] v.t = "string" -> Len(v.s) > 0
      [] v.t = "number" -> v.den # 0 /\ v.num # 0
      [] OTHER -> TRUE

\* row[field]: undefined when the row has no such key.
Get(row, field) == IF field \in DOMAIN row THEN row[field] ELSE JsUndefined

\* b to the power n
RECURSIVE Power(_, _)
Power(b, n) == IF n = 0 THEN 1 ELSE b * Power(b, n - 1)

DigitChars == <<"0", "1", "2", "3", "4", "5", "6", "7", "8", "9">>

DigitOf(c) == (CHOOSE d \in DOMAIN DigitChars : DigitChars[d] = c) - 1

\* The number of digits of chars from position i on.
RECURSIVE DigitRun(_, _)
DigitRun(chars, i) ==
    IF i <= Len(chars) /\ (\E d \in DOMAIN DigitChars : DigitChars[d] = chars[i]) THEN 1 + DigitRun(chars, i + 1) ELSE 0

\* The value of the n digits of chars from position i on.
RECURSIVE DigitsValue(_, _, _)
DigitsValue(chars, i, n) ==
    IF n = 0 THEN 0
    ELSE 10 * DigitsValue(chars, i, n - 1) + DigitOf(chars[i + n - 1])

\* parseFloat(v): v is converted to a string first, so a number comes back
\* as itself and null, undefined and plain objects give NaN.  Of a string:
\* an optional sign, digits, an optional point and digits; what follows is
\* ignored; NaN without a digit.  (Leading blanks, exponents and Infinity
\* are not among the inputs.)
ParseFloat(v) ==
    IF v.t = "number" THEN v
    ELSE IF v.t # "string" THEN NaN
    ELSE LET chars == v.s
             signed == 1 <= Len(chars) /\ chars[1] \in {"-", "+"}
             neg == signed /\ chars[1] = "-"
             i == IF signed THEN 2 ELSE 1
             ni == DigitRun(chars, i)
             point == i + ni <= Len(chars) /\ chars[i + ni] = "."
             nf == IF point THEN DigitRun(chars, i + ni + 1) ELSE 0
             whole == DigitsValue(chars, i, ni)
             frac == DigitsValue(chars, i + ni + 1, nf)
             mag == whole * Power(10, nf) + frac
         IN  IF ni + nf = 0 THEN NaN
             ELSE JsNumber(IF neg THEN 0 - mag ELSE mag, Power(10, nf))

\* processDateField(row, field)
processDateField(row, field) ==
    LET v == Get(row, field)
    IN  IF Truthy(v) /\ v.t \in {"object", "null"} /\ Truthy(v.value) THEN v.value ELSE v

\* Mutant: the guard is replaced by a default, parseFloat(row[field]) || 0.
processNumericDefaults(row, field) ==
    LET v == ParseFloat(Get(row, field))
    IN  IF Truthy(v) THEN v ELSE JsNumber(0, 1)

\* processNumericField(row, field)
processNumericField(row, field) ==
    LET v == Get(row, field)
    IN  IF Truthy(v) THEN ParseFloat(v) ELSE v

\* The fields the refresh operation of an entity normalizes, by kind.
DateFields(e) ==
    IF e = "contacts" THEN {"created_at", "updated_at", "date_of_birth"} ELSE {}

NumericFields(e) ==
    IF e = "units" THEN {"rate_managed", "unit_width", "unit_depth", "unit_height"} ELSE {}

\* rows.map((row) => ({ ...row, f: processXField(row, 'f'), ... })): the
\* keys of the row, then every listed field assigned.
ProcessRow(e, row) ==
    [f \in DOMAIN row \cup DateFields(e) \cup NumericFields(e) |->
        IF f \in DateFields(e) THEN processDateField(row, f)
        ELSE IF f \in NumericFields(e) THEN processNumericField(row, f)
        ELSE row[f]]

FieldInputs(e, f) ==
    IF f \in NumericFields(e)
    THEN {JsNull, JsUndefined, JsString(<<"1", "2", ".", "5">>), JsString(<<"1", "0">>),
          JsString(<<"0">>), JsNumber(0, 1), JsNumber(25, 2)}
    ELSE IF f \in DateFields(e)
    THEN {JsNull, JsUndefined,
          JsCarrier(JsString(<<"2", "0", "2", "4", "-", "0", "1", "-", "0", "1">>)),
          JsString(<<"2", "0", "2", "4", "-", "0", "1", "-", "0", "1">>)}
    ELSE {JsString(<<"A", "1">>)}

\* One row goes through the mapping of getUnits / getContacts: its key, an
\* unlisted field, and any subset of the listed fields.
ProcessRows(e) ==
    /\ norm.pc = "idle"
    /\ \E ks \in SUBSET (NumericFields(e) \cup DateFields(e)) :
       LET keys == ks \cup (IF e = "units" THEN {"unit_id", "unit_name"}
                                          ELSE {"contact_id", "first_name"})
       IN  \E row \in [keys -> UNION {FieldInputs(e, f) : f \in keys}] :
              /\ \A f \in keys : row[f] \in FieldInputs(e, f)
              /\ norm' = [pc |-> "mapped", entity |-> e, row |-> row, rowAfter |-> row,
                          processed |-> ProcessRow(e, row)]
    /\ UNCHANGED <<edgeVars, batchVars, tenantVars, schedVars, metricVars, retry>>

\* The processed rows are handed to saveToDatabase and returned.
RowsReturned ==
    /\ norm.pc = "mapped"
    /\ norm' = IdleNorm
    /\ UNCHANGED <<edgeVars, batchVars, tenantVars, schedVars, metricVars, retry>>

InitNorm ==
    /\ Quiet
    /\ metrics = MetricsConstructor
    /\ audit = NoAudit
    /\ version = "services"
    /\ TenantIdle
    /\ entity = "units"
    /\ shape = {"unit_id", "val"}
    /\ natUnique = TRUE
    /\ thisPool = BaseModelConstructor
    /\ active = {}
    /\ table = {}
    /\ checkedOut = 0
    /\ clock = 0
    /\ call = [c \in Callers |-> IdleCall]
    /\ ncalls = 0
    /\ prev = NoPrev
    /\ job = IdleJob

NextNorm ==
    \/ ProcessRows("units")
    \/ ProcessRows("contacts")
    \/ RowsReturned

SpecNorm == InitNorm /\ [][NextNorm]_vars

(***************************************************************************)
(* Properties of the field normalization.                                  *)
(***************************************************************************)
\* Numeric strings and the numbers they denote, as fractions.
NumericStrings ==
    {<<(<<"1", "2", ".", "5">>), 25, 2>>, <<(<<"1", "0">>), 10, 1>>, <<(<<"0">>), 0, 1>>}

\* C18: date normalization maps a carrier {value: s} to the plain string s
\* and leaves a plain value unchanged; numeric normalization maps a numeric
\* string to the number it denotes ("12.5" to 12.5); null and undefined stay
\* null and undefined.
C18_NormalizedValues ==
    norm.pc = "mapped" =>
        /\ \A f \in DateFields(norm.entity) \cap DOMAIN norm.row :
              LET v == norm.row[f]
                  w == norm.processed[f]
              IN  IF v.t = "object" THEN w = v.value /\ w.t = "string"
                  ELSE w = v
        /\ \A f \in NumericFields(norm.entity) \cap DOMAIN norm.row :
              LET v == norm.row[f]
                  w == norm.processed[f]
              IN  /\ v.t \in {"null", "undefined"} => w = v
                  /\ \A ns \in NumericStrings :
                        v = JsString(ns[1]) =>
                            /\ w.t = "number"
                            /\ w.den > 0
                            /\ w.num * ns[3] = ns[2] * w.den
                  /\ v.t = "number" => w = v

\* A unit row with rate_managed "12.5" and unit_width null has been mapped:
\* rate_managed is the number 12.5 and unit_width is still null.
C18_Witness ==
    /\ norm.pc = "mapped"
    /\ norm.entity = "units"
    /\ {"rate_managed", "unit_width"} \subseteq DOMAIN norm.row
    /\ norm.row["rate_managed"] = JsString(<<"1", "2", ".", "5">>)
    /\ norm.row["unit_width"] = JsNull
    /\ norm.processed["rate_managed"].t = "number"
    /\ norm.processed["rate_managed"].num * 2 = 25 * norm.processed["rate_managed"].den
    /\ norm.processed["unit_width"] = JsNull

\* C19: normalizing a row leaves every field outside the entity's field
\* table unchanged, neither adds nor removes keys, and does not change the
\* input row.
C19_Frame ==
    norm.pc = "mapped" =>
        /\ DOMAIN norm.processed = DOMAIN norm.row
        /\ \A f \in DOMAIN norm.row \ (DateFields(norm.entity) \cup NumericFields(norm.entity)) :
              f \in DOMAIN norm.processed /\ norm.processed[f] = norm.row[f]
        /\ norm.rowAfter = norm.row

(***************************************************************************)
(* The retry executor withRetry(operation, label).  The PMS client that    *)
(* holds it is not part of the source tree; it is modelled from section    *)
(* 4.3 of the specification, with the default configuration.               *)
(***************************************************************************)
MaxAttempts == 3
InitialDelay == 1000
BackoffFactor == 2
MaxDelay == 10000

Labels == {"syncFacilities", "syncTenants"}
RetryableKinds == {"network", "timeout", "server"}
TerminalKinds == {"client", "auth"}
\* delay(attempt) = min(initial * factor^(attempt - 1), max)
Delay(attempt) ==
    LET d == InitialDelay * Power(BackoffFactor, attempt - 1)
    IN  IF d < MaxDelay THEN d ELSE MaxDelay

\* Mutant: one attempt more than configured is made.
ExhaustedLate(attempt) == attempt > MaxAttempts

\* All attempts have been used.
Exhausted(attempt) == attempt >= MaxAttempts

Succeeded(v) == [ok |-> TRUE, value |-> v, kind |-> "none"]
Failed(kind) == [ok |-> FALSE, value |-> Null, kind |-> kind]

\* withRetry(operation, label) is called: the first attempt is started.
CallWithRetry ==
    /\ retry.pc = "idle"
    /\ \E label \in Labels :
          retry' = [IdleRetry EXCEPT !.pc = "attempting", !.label = label, !.attempt = 1]
    /\ UNCHANGED <<edgeVars, batchVars, tenantVars, schedVars, metricVars, norm>>

\* The attempt succeeds: its result is the result of the call.
AttemptSucceeds ==
    /\ retry.pc = "attempting"
    /\ \E v \in 1..MaxOps :
          retry' = [retry EXCEPT !.pc = "returned", !.result = v,
                                 !.outcomes = Append(@, Succeeded(v))]
    /\ UNCHANGED <<edgeVars, batchVars, tenantVars, schedVars, metricVars, norm>>

\* Mutant: a terminal error is slept on and retried like any other.
AttemptFailsTerminalSleeps ==
    /\ retry.pc = "attempting"
    /\ \E kind \in TerminalKinds :
          IF Exhausted(retry.attempt)
          THEN retry' = [retry EXCEPT !.pc = "raised",
                                      !.outcomes = Append(@, Failed(kind)),
                                      !.error = [kind |-> kind, label |-> "none", attempts |-> 0]]
          ELSE retry' = [retry EXCEPT !.pc = "sleeping",
                                      !.outcomes = Append(@, Failed(kind)),
                                      !.slept = Append(@, Delay(retry.attempt))]
    /\ UNCHANGED <<edgeVars, batchVars, tenantVars, schedVars, metricVars, norm>>

\* The attempt fails with a terminal error: raised at once, without a sleep.
AttemptFailsTerminal ==
    /\ retry.pc = "attempting"
    /\ \E kind \in TerminalKinds :
          retry' = [retry EXCEPT !.pc = "raised",
                                 !.outcomes = Append(@, Failed(kind)),
                                 !.error = [kind |-> kind, label |-> "none", attempts |-> 0]]
    /\ UNCHANGED <<edgeVars, batchVars, tenantVars, schedVars, metricVars, norm>>

\* The attempt fails with a retryable error: when attempts are left the
\* executor sleeps delay(attempt); otherwise the error is raised, tagged with
\* the label and the attempt count.
AttemptFailsRetryable ==
    /\ retry.pc = "attempting"
    /\ \E kind \in RetryableKinds :
          IF Exhausted(retry.attempt)
          THEN retry' = [retry EXCEPT !.pc = "raised",
                                      !.outcomes = Append(@, Failed(kind)),
                                      !.error = [kind |-> kind, label |-> retry.label,
                                                 attempts |-> retry.attempt]]
          ELSE retry' = [retry EXCEPT !.pc = "sleeping",
                                      !.outcomes = Append(@, Failed(kind)),
                                      !.slept = Append(@, Delay(retry.attempt))]
    /\ UNCHANGED <<edgeVars, batchVars, tenantVars, schedVars, metricVars, norm>>

\* The sleep is over: the next attempt is started.
NextAttempt ==
    /\ retry.pc = "sleeping"
    /\ retry' = [retry EXCEPT !.pc = "attempting", !.attempt = @ + 1]
    /\ UNCHANGED <<edgeVars, batchVars, tenantVars, schedVars, metricVars, norm>>

\* The caller has the result or the error; the executor keeps no state.
RetrySettled ==
    /\ retry.pc \in {"returned", "raised"}
    /\ retry' = IdleRetry
    /\ UNCHANGED <<edgeVars, batchVars, tenantVars, schedVars, metricVars, norm>>

InitRetry ==
    /\ Quiet
    /\ metrics = MetricsConstructor
    /\ audit = NoAudit
    /\ version = "services"
    /\ TenantIdle
    /\ entity = "units"
    /\ shape = {"unit_id", "val"}
    /\ natUnique = TRUE
    /\ thisPool = BaseModelConstructor
    /\ active = {}
    /\ table = {}
    /\ checkedOut = 0
    /\ clock = 0
    /\ call = [c \in Callers |-> IdleCall]
    /\ ncalls = 0
    /\ prev = NoPrev
    /\ job = IdleJob

NextRetry ==
    \/ CallWithRetry
    \/ AttemptSucceeds
    \/ AttemptFailsTerminal
    \/ AttemptFailsRetryable
    \/ NextAttempt
    \/ RetrySettled

SpecRetry == InitRetry /\ [][NextRetry]_vars

\* C20: withRetry invokes the operation at most MaxAttempts (3) times; the
\* first attempt that succeeds ends the call with that attempt's result and
\* no further attempt is made; when every attempt fails with a retryable
\* error the call raises the last error, tagged with the label and the
\* attempt count, and returns no result.
C20_BoundAndExhaustion ==
    /\ [](/\ retry.attempt <= 3
          /\ Len(retry.outcomes) <= retry.attempt
          /\ \A i \in DOMAIN retry.outcomes :
                retry.outcomes[i].ok => (i = Len(retry.outcomes) /\ retry.pc = "returned")
          /\ retry.pc = "returned" =>
                /\ retry.outcomes[Len(retry.outcomes)] = Succeeded(retry.result)
                /\ retry.error = NoRaised
          /\ (/\ retry.pc = "raised"
              /\ \A i \in DOMAIN retry.outcomes : retry.outcomes[i].kind \in RetryableKinds) =>
                /\ Len(retry.outcomes) = 3
                /\ retry.error = [kind |-> retry.outcomes[3].kind, label |-> retry.label,
                                  attempts |-> 3]
                /\ retry.result = Null)
    /\ [][retry.pc \in {"returned", "raised"} => retry'.attempt = 0]_vars

\* Three attempts failed with retryable errors: the last one is raised with
\* the label and the count 3, after sleeps of 1000 and 2000 ms.
C20_Witness ==
    /\ retry.pc = "raised"
    /\ Len(retry.outcomes) = 3
    /\ \A i \in 1..3 : retry.outcomes[i].kind \in RetryableKinds
    /\ retry.outcomes[1].kind # retry.outcomes[3].kind
    /\ retry.error.kind = retry.outcomes[3].kind
    /\ retry.error.label = retry.label
    /\ retry.error.attempts = 3
    /\ retry.slept = <<1000, 2000>>
    /\ retry.result = Null

\* C21: an attempt that fails with a terminal error (client error,
\* authentication failure) is raised at once, with no sleep and no further
\* attempt whatever budget remains; any other failure leads to another
\* attempt while the budget lasts.
C21_TerminalNotRetried ==
    /\ [](\A i \in DOMAIN retry.outcomes :
            LET o == retry.outcomes[i]
            IN  /\ o.kind \in {"client", "auth"} =>
                      /\ i = Len(retry.outcomes)
                      /\ retry.pc = "raised"
                      /\ retry.error.kind = o.kind
                      /\ Len(retry.slept) = i - 1
                      /\ retry.attempt = i
                /\ (o.kind \in {"network", "timeout", "server"} /\ i < 3) =>
                      \/ retry.attempt > i
                      \/ retry.pc = "sleeping" /\ Len(retry.slept) = i /\ ENABLED NextAttempt)
    /\ [][retry.pc = "raised" => retry'.attempt = 0 /\ retry'.slept = <<>>]_vars

\* The first attempt failed with a retryable error and was slept on; the
\* second failed with a terminal error, which is raised with one attempt
\* left and only the one sleep made.
C21_Witness ==
    /\ retry.pc = "raised"
    /\ Len(retry.outcomes) = 2
    /\ retry.outcomes[1].kind \in {"network", "timeout", "server"}
    /\ retry.outcomes[2].kind \in {"client", "auth"}
    /\ retry.error.kind = retry.outcomes[2].kind
    /\ retry.slept = <<1000>>
    /\ retry.attempt = 2

SigChars == {"0", "a", "f"}

\* hmac.update(JSON.stringify(payload)).digest('hex') under the secret
Hmac(body) == IF body = 1 THEN <<"0", "a">> ELSE <<"f", "0">>

\* crypto.timingSafeEqual(a, b): throws when the byte lengths differ.
timingSafeEqual(a, b) ==
    IF Len(a) # Len(b) THEN "RangeError" ELSE IF a = b THEN "true" ELSE "false"

\* verifyWebhookSignature(signature, payload)
verifyWebhookSignature(signature, payload) == timingSafeEqual(signature, Hmac(payload))

\* A request arrives on one of the two routes.
Request ==
    /\ web.pc = "idle"
    /\ web.n < MaxRequests
    /\ \/ \E sig \in UNION {[1..k -> SigChars] : k \in 0..MaxSigLen}, body \in 1..MaxBody :
             web' = [IdleWeb EXCEPT !.pc = "received", !.route = "webhook", !.n = web.n + 1,
                                    !.sig = sig, !.body = body]
       \/ \E code \in BOOLEAN, state \in BOOLEAN :
             web' = [IdleWeb EXCEPT !.pc = "received", !.route = "callback", !.n = web.n + 1,
                                    !.code = code, !.state = state]
    /\ UNCHANGED <<facility, cron, composite, batchVars, tenantVars, schedVars, metricVars, norm, retry>>

\* router.post('/webhook'): if (!signature || !verifyWebhookSignature(...))
\* return res.status(401)...; await CubbyPMS.handleWebhook(req.body);
\* an exception goes to the catch, which answers 500.
WebhookGate ==
    /\ web.pc = "received"
    /\ web.route = "webhook"
    /\ IF web.sig = <<>>
       THEN web' = [web EXCEPT !.pc = "responded", !.status = 401, !.responses = @ + 1]
       ELSE LET v == verifyWebhookSignature(web.sig, web.body)
            IN  CASE v = "RangeError" ->
                       web' = [web EXCEPT !.pc = "responded", !.status = 500, !.responses = @ + 1]
                  [] v = "false" ->
                       web' = [web EXCEPT !.pc = "responded", !.status = 401, !.responses = @ + 1]
                  [] OTHER ->
                       web' = [web EXCEPT !.pc = "handling", !.handled = TRUE]
    /\ UNCHANGED <<facility, cron, composite, batchVars, tenantVars, schedVars, metricVars, norm, retry>>

\* handleWebhook resolves: res.status(200); or rejects: the catch answers 500.
HandleWebhookSettles ==
    /\ web.pc = "handling"
    /\ web.route = "webhook"
    /\ \E status \in {200, 500} :
          web' = [web EXCEPT !.pc = "responded", !.status = status, !.responses = @ + 1]
    /\ UNCHANGED <<facility, cron, composite, batchVars, tenantVars, schedVars, metricVars, norm, retry>>

\* router.get('/auth/callback'): if (!code || !state) return res.status(400)...;
\* await GoogleMyBusiness.handleAuthCallback(code, state);
CallbackGate ==
    /\ web.pc = "received"
    /\ web.route = "callback"
    /\ IF ~web.code \/ ~web.state
       THEN web' = [web EXCEPT !.pc = "responded", !.status = 400, !.responses = @ + 1]
       ELSE web' = [web EXCEPT !.pc = "handling", !.handled = TRUE]
    /\ UNCHANGED <<facility, cron, composite, batchVars, tenantVars, schedVars, metricVars, norm, retry>>

\* handleAuthCallback rejects (bad state, failed token exchange): it records
\* the failed call and the route's catch answers res.redirect(...).
HandleAuthCallbackRejects ==
    /\ web.pc = "handling"
    /\ web.route = "callback"
    /\ ApiCallTracked("handleAuthCallback", FALSE)
    /\ web' = [web EXCEPT !.pc = "responded", !.status = 302, !.responses = @ + 1]
    /\ UNCHANGED <<facility, cron, composite, batchVars, tenantVars, schedVars, norm, retry>>

\* handleAuthCallback resolves: it records the call and returns true; the
\* route's redirect is commented out, so the handler ends here.
HandleAuthCallbackResolves ==
    /\ web.pc = "handling"
    /\ web.route = "callback"
    /\ ApiCallTracked("handleAuthCallback", TRUE)
    /\ web' = [web EXCEPT !.pc = "finished"]
    /\ UNCHANGED <<facility, cron, composite, batchVars, tenantVars, schedVars, norm, retry>>

\* The exchange is over: the response has been sent, or the client gave up.
RequestClosed ==
    /\ web.pc \in {"responded", "finished"}
    /\ web' = [IdleWeb EXCEPT !.n = web.n]
    /\ UNCHANGED <<facility, cron, composite, batchVars, tenantVars, schedVars, metricVars, norm, retry>>

InitWeb ==
    /\ Quiet
    /\ metrics = MetricsConstructor
    /\ audit = NoAudit
    /\ version = "services"
    /\ TenantIdle
    /\ entity = "units"
    /\ shape = {"unit_id", "val"}
    /\ natUnique = TRUE
    /\ thisPool = BaseModelConstructor
    /\ active = {}
    /\ table = {}
    /\ checkedOut = 0
    /\ clock = 0
    /\ call = [c \in Callers |-> IdleCall]
    /\ ncalls = 0
    /\ prev = NoPrev
    /\ job = IdleJob

NextWeb ==
    \/ Request
    \/ WebhookGate
    \/ HandleWebhookSettles
    \/ CallbackGate
    \/ HandleAuthCallbackRejects
    \/ HandleAuthCallbackResolves
    \/ RequestClosed

\* The event loop runs every handler step that is pending.
SpecWeb == InitWeb /\ [][NextWeb]_vars /\ WF_vars(NextWeb)

\* C23: POST /webhook invokes handleWebhook only when the signature header is
\* present and equals the digest of the body; every request with a missing or
\* non-matching signature, of any length, is answered 401 and causes no sync
\* action.
C23_SignatureGate ==
    (web.route = "webhook" /\ web.pc \in {"handling", "responded"}) =>
        IF web.sig # <<>> /\ web.sig = Hmac(web.body)
        THEN web.handled
        ELSE ~web.handled /\ web.status = 401

\* C30: every request to GET /gmb/auth/callback eventually receives exactly
\* one response, on every path.
C30_CallbackAnswers ==
    /\ [](web.responses <= 1)
    /\ (web.route = "callback" /\ web.pc = "received")
          ~> (web.route = "callback" /\ web.responses = 1)

(***************************************************************************)
(* The entities with a composite natural key (date + unit):                *)
(* models/SpaceHistorical.js and models/UnitTurnover.js.                   *)
(***************************************************************************)
\* SpaceHistorical: ON CONFLICT (org_id); UnitTurnover: ON CONFLICT (id)
CompositeConflict(e) == IF e = "spaces_historical" THEN "org_id" ELSE "id"

\* The records getSpacesHistorical / getUnitTurnover pass on: the columns of
\* the source view, which has no id column.
CompositeRecords == [org_id : KeyVals, date : KeyVals, unit_id : KeyVals, val : Vals]

\* One INSERT ... ON CONFLICT (<target>) DO UPDATE SET <every key but id> of
\* upsertMany on the rows of the table: the rows afterwards, or the error.
\* The proposed row takes the next serial id, so (id) never conflicts.
CompositeStatement(e, rows, rec) ==
    LET hit == IF CompositeConflict(e) = "org_id"
               THEN {t \in rows : t.org_id = rec.org_id} ELSE {}
        twin(skip) == \E t \in rows \ skip : t.date = rec.date /\ t.unit_id = rec.unit_id
        new(id) == [id |-> id, org_id |-> rec.org_id, date |-> rec.date,
                    unit_id |-> rec.unit_id, val |-> rec.val]
    IN  IF CompositeConflict(e) = "org_id" /\ ~composite.orgIndexed
        THEN [err |-> "no_matching_constraint", rows |-> rows]
        ELSE IF natUnique /\ twin(hit)
        THEN [err |-> "unique_violation", rows |-> rows]
        ELSE IF hit # {}
        THEN [err |-> "none", rows |-> {IF t \in hit THEN new(t.id) ELSE t : t \in rows}]
        ELSE [err |-> "none", rows |-> rows \cup {new(Cardinality(rows) + 1)}]

\* upsertMany([rec]) on a model with a pool: BEGIN, the statement, COMMIT;
\* on an error ROLLBACK and rethrow.
UpsertComposite(e) ==
    /\ Len(composite.upserted["spaces_historical"])
          + Len(composite.upserted["unit_turnover"]) < MaxUpserts
    /\ \E rec \in CompositeRecords :
          LET r == CompositeStatement(e, composite.rows[e], rec)
          IN  composite' = [composite EXCEPT !.rows[e] = r.rows,
                                             !.upserted[e] = Append(@, rec),
                                             !.err = r.err]
    /\ UNCHANGED <<web, facility, cron, batchVars, tenantVars, schedVars, metricVars, norm, retry>>

InitComposite ==
    /\ \E b \in BOOLEAN : composite = [NoComposite EXCEPT !.orgIndexed = b]
    /\ natUnique \in BOOLEAN
    /\ proc = IdleProc
    /\ runs = [r \in 1..MaxFires |-> NoRun]
    /\ health = NoHealth
    /\ norm = IdleNorm
    /\ retry = IdleRetry
    /\ web = IdleWeb
    /\ facility = NoFacilities
    /\ cron = Midnight
    /\ metrics = MetricsConstructor
    /\ audit = NoAudit
    /\ version = "services"
    /\ TenantIdle
    /\ entity = "units"
    /\ shape = {"unit_id", "val"}
    /\ thisPool = ThePool
    /\ active = {}
    /\ table = {}
    /\ checkedOut = 0
    /\ clock = 0
    /\ call = [c \in Callers |-> IdleCall]
    /\ ncalls = 0
    /\ prev = NoPrev
    /\ job = IdleJob

NextComposite ==
    \/ UpsertComposite("spaces_historical")
    \/ UpsertComposite("unit_turnover")

SpecComposite == InitComposite /\ [][NextComposite]_vars

FacilityRows == [id : KeyVals, name : Vals]

\* for (const row of facilityRows) { ... }: one row goes through the body.
\*   existingFacilities = await Facility.findAll({ id: row.facility_id });
\*   if (existingFacilities.length > 0) await Facility.update(row.facility_id, facilityData);
\*   else await Facility.create({ id: row.facility_id, ...facilityData });
\* undefined is sent as NULL, and id = NULL matches no row.
FacilityLoop ==
    /\ Len(facility.synced) < MaxSynced
    /\ facility.err = "none"
    /\ \E row \in FacilityRows :
          LET facility_id == Param(row, "facility_id")
              existingFacilities ==
                  {t \in facility.rows : facility_id # Null /\ t.id = facility_id}
              updated == {IF t.id = facility_id /\ facility_id # Null
                          THEN [t EXCEPT !.name = row.name] ELSE t : t \in facility.rows}
              created == [ctid |-> Cardinality(facility.rows) + 1, id |-> facility_id,
                          name |-> row.name]
          IN  IF existingFacilities # {}
              THEN facility' = [facility EXCEPT !.rows = updated, !.synced = Append(@, row)]
              ELSE IF facility_id = Null /\ facility.idNotNull
              THEN facility' = [facility EXCEPT !.synced = Append(@, row),
                                                !.err = "not_null_violation"]
              ELSE facility' = [facility EXCEPT !.rows = @ \cup {created},
                                                !.synced = Append(@, row)]
    /\ UNCHANGED <<web, cron, composite, batchVars, tenantVars, schedVars, metricVars, norm, retry>>

\* The next run of the sync starts after one that raised.
FacilityNextRun ==
    /\ facility.err # "none"
    /\ facility' = [facility EXCEPT !.err = "none"]
    /\ UNCHANGED <<web, cron, composite, batchVars, tenantVars, schedVars, metricVars, norm, retry>>

InitFacility ==
    /\ \E b \in BOOLEAN : facility = [NoFacilities EXCEPT !.idNotNull = b]
    /\ proc = IdleProc
    /\ runs = [r \in 1..MaxFires |-> NoRun]
    /\ health = NoHealth
    /\ norm = IdleNorm
    /\ retry = IdleRetry
    /\ web = IdleWeb
    /\ cron = Midnight
    /\ composite = NoComposite
    /\ metrics = MetricsConstructor
    /\ audit = NoAudit
    /\ version = "gmbAuth"
    /\ TenantIdle
    /\ entity = "units"
    /\ shape = {"unit_id", "val"}
    /\ natUnique = TRUE
    /\ thisPool = BaseModelConstructor
    /\ active = {}
    /\ table = {}
    /\ checkedOut = 0
    /\ clock = 0
    /\ call = [c \in Callers |-> IdleCall]
    /\ ncalls = 0
    /\ prev = NoPrev
    /\ job = IdleJob

NextFacility ==
    \/ FacilityLoop
    \/ FacilityNextRun

SpecFacility == InitFacility /\ [][NextFacility]_vars

\* C25: a facility is looked up by the external system's id; an existing row
\* with that id is updated in place, otherwise a row with that id is
\* inserted: re-syncing never adds a row and every stored row carries the
\* external id.
C25_FacilityReconciled ==
    LET ids == {facility.synced[i].id : i \in DOMAIN facility.synced}
    IN  /\ facility.err = "none"
        /\ \A t \in facility.rows : t.id \in ids
        /\ \A id \in ids : Cardinality({t \in facility.rows : t.id = id}) = 1

\* C26: the outcome Metrics records for a refresh run reflects the store
\* write: when the first run has ended, it is counted as a success exactly
\* when it ended successfully; a run whose query succeeded but whose upsert
\* failed is not counted as a success.
C26_OutcomeFollowsWrite ==
    (job.pc = "ended" /\ job.runs = 1) =>
        /\ audit.api.all = 1
        /\ (audit.api.ok = 1) <=> (job.outcome = "success")

(***************************************************************************)
(* The book entries refresh: scheduleJob('* */12 * * *', async () => ...)  *)
(* src/src/index.js 163-176 and src/unnamed/part_000 149-158.  The        *)
(* expression has five fields: minute, hour, day of month, month, day of   *)
(* week.  cron.minute counts the minutes since the midnight the process    *)
(* started at; cron.started holds the minutes at which a run was started.  *)
(***************************************************************************)
MaxMinute == 2880

\* One field of a cron expression: "*" matches every value, "*/n" the values
\* divisible by n.
FieldMatches(field, v) ==
    CASE field.kind = "every" -> TRUE
      [] field.kind = "step" -> v % field.n = 0

\* '* */12 * * *': minute "*", hour "*/12"; the day of month, month and day
\* of week fields are "*".
BookEntriesExpression ==
    [minute |-> [kind |-> "every", n |-> 1], hour |-> [kind |-> "step", n |-> 12]]

\* Minute t of the clock is minute t % 60 of hour (t \div 60) % 24.
CronMatches(expr, t) ==
    /\ FieldMatches(expr.minute, t % 60)
    /\ FieldMatches(expr.hour, (t \div 60) % 24)

\* The scheduler reaches a minute that the expression matches and invokes
\* the callback: a run of the book entries refresh starts.
BookEntriesFires ==
    /\ cron.minute < MaxMinute
    /\ CronMatches(BookEntriesExpression, cron.minute)
    /\ cron' = [minute |-> cron.minute + 1,
                started |-> Append(cron.started, cron.minute)]
    /\ UNCHANGED <<web, facility, composite, batchVars, tenantVars, schedVars, metricVars, norm, retry>>

\* A minute that the expression does not match passes.
MinutePasses ==
    /\ cron.minute < MaxMinute
    /\ ~CronMatches(BookEntriesExpression, cron.minute)
    /\ cron' = [cron EXCEPT !.minute = cron.minute + 1]
    /\ UNCHANGED <<web, facility, composite, batchVars, tenantVars, schedVars, metricVars, norm, retry>>

InitCron == InitWeb

NextCron == BookEntriesFires \/ MinutePasses

SpecCron == InitCron /\ [][NextCron]_vars

\* The runs started in the 24 hours that begin at minute t.
StartedIn24h(t) == SelectSeq(cron.started, LAMBDA m : t <= m /\ m < t + 1440)

\* C27: over any 24-hour period of the minute clock that has elapsed, the
\* book entries refresh started exactly two runs.
C27_TwoRunsPerDay ==
    \A t \in 0..MaxMinute :
        t + 1440 <= cron.minute => Len(StartedIn24h(t)) = 2

\* C28: for every record of a batch handed to upsertMany, the generated
\* DO UPDATE SET list assigns no column twice (updated_at included) and has
\* at least one assignment before the trailing updated_at assignment.
C28_WellFormedUpdateClause ==
    \A c \in Callers : \A i \in DOMAIN call[c].batch :
        LET r == call[c].batch[i] IN
        /\ \A col \in DOMAIN r \cup {"updated_at"} : Count(SetList(entity, r), col) <= 1
        /\ Len(UpdateClause(entity, r)) >= 1

====
